---- MODULE Spec2Model ----
(***************************************************************************)
(* Model of the GEO content pipeline: the workflow orchestrator            *)
(* (agents/orchestrator.py), the research agent (agents/research_agent.py),*)
(* the Perplexity retrieval tool (tools/perplexity_search.py), the two     *)
(* writers, the evaluator (agents/evaluator_agent.py) and the background   *)
(* job runner (api/routes.py).                                             *)
(*                                                                         *)
(* Texts are abstracted to naturals (two texts are equal iff their numbers *)
(* are equal); external services answer nondeterministically from small    *)
(* sets of answers.                                                        *)
(***************************************************************************)
EXTENDS Integers, Sequences, FiniteSets, TLC

VARIABLES
    settings,       \* config.Settings fields that drive control flow
    runtime,        \* deployment facts: interpreter, API key, writer B backend
    request,        \* the body of the POST request
    endpoint,       \* the route it was posted to: "sync" or "async"
    pc,             \* position of the request in its handler and its run
    job,            \* the job's record in the job storage
    trace,          \* trace_metadata.completion_status
    error,          \* exception raised by generate_content, None if none
    response,       \* ContentGenerationResponse returned, None if none
    caller,         \* which call of conduct_research is running
    rs,             \* locals of ResearchAgent.conduct_research
    px,             \* the perplexity_quote_search call in flight
    research_brief, \* brief returned by the last conduct_research call
    current_research_brief, \* the orchestrator's running brief
    research_iteration,     \* outer loop counter of generate_content
    eeat_gaps,      \* gaps passed to the last gap-focused research
    site,           \* call site of the draft generation being awaited
    handed,         \* brief passed to the writers of that generation
    tasks,          \* the two awaitables handed to asyncio.gather
    draft_a,        \* current_draft_a
    draft_b,        \* current_draft_b
    iteration,      \* inner loop counter of _evaluation_loop
    evaluation,     \* last EvaluationResult of _evaluation_loop
    commentary,     \* commentary of the last _evaluation_loop
    final_result,   \* dict returned by the last _evaluation_loop
    eval_answer,    \* what the evaluator's LLM answered to the last call
    commentary_answer, \* what it answered to the last commentary call
    evaluated,      \* the draft pair passed to the last evaluate_drafts call
    eval_calls,     \* evaluate_drafts calls issued by this run
    eval_passes,    \* _evaluation_loop calls made by this run
    harvester,      \* the PathwayWebHarvester.harvest_urls call in flight
    database,       \* the jobs table of JobDatabase and its callers' view
    detection       \* the last detect_language call: its text and result

cfg == <<settings, runtime, request, endpoint>>
libv == <<harvester, database, detection>>
jobv == <<job, trace, error, response>>
resv == <<caller, rs, px, research_brief>>
orchv ==
    <<current_research_brief, research_iteration, eeat_gaps, final_result>>
draftv == <<site, handed, tasks, draft_a, draft_b>>
evalv ==
    <<iteration, evaluation, commentary, eval_answer, commentary_answer,
      evaluated, eval_calls, eval_passes>>

vars == <<cfg, libv, pc, jobv, resv, orchv, draftv, evalv>>

-----------------------------------------------------------------------------
(* Bounds of the model *)

\* distinct quotation texts the retrieval service can return
MaxQuoteTexts == 4

-----------------------------------------------------------------------------
(* Generic helpers *)

Min(a, b) == IF a <= b THEN a ELSE b
Max(a, b) == IF a >= b THEN a ELSE b

\* Python slice s[:n]
Take(s, n) == SubSeq(s, 1, Min(n, Len(s)))

None == "None"

\* set of the elements of a sequence
Range(s) == {s[i] : i \in 1..Len(s)}

-----------------------------------------------------------------------------
(* Texts.  A text is <<head, tail>>: head names its first characters up to *)
(* the cut applied by the parser, tail what follows (0 = nothing).         *)

Text(h) == <<h, 0>>
EmptyText == <<0, 0>>

\* content[:50] / content[:100]
Cut(t) == <<t[1], 0>>

-----------------------------------------------------------------------------
(* models/schemas.py *)

StatisticItem(value, context, verified) ==
    [value |-> value, context |-> context, verified |-> verified]

QuotationItem(quote, verified) == [quote |-> quote, verified |-> verified]

CitationItem(name, description) == [name |-> name, description |-> description]

\* ResearchBrief.verification_stats default (empty dict)
NoVerificationStats ==
    [present |-> FALSE, total_stats_found |-> 0, verified_stats |-> 0,
     discarded_stats |-> 0, total_quotes_found |-> 0, verified_quotes |-> 0,
     discarded_quotes |-> 0, retry_attempts |-> 0]

ResearchBrief(facts, stats, quotes, cites, urls) ==
    [key_facts |-> facts, statistics |-> stats, quotations |-> quotes,
     citations |-> cites, source_urls |-> urls,
     verification_stats |-> NoVerificationStats]

EmptyBrief == ResearchBrief(<<>>, <<>>, <<>>, <<>>, <<>>)

-----------------------------------------------------------------------------
(* agents/research_agent.py: _parse_research_result *)

\* caps applied by the parser and by the merge
MaxKeyFacts == 15
MaxStatistics == 8
MaxQuotations == 5
MaxCitations == 10

\* One stripped, non-empty line of the agent's final_output: kw is the set of
\* section keywords found in the lower-cased line, bullet tells whether the
\* line starts with a list marker, text is the line after lstrip of markers.
Line(kw, bullet, text) == [kw |-> kw, bullet |-> bullet, text |-> text]

\* the if/elif cascade that detects section headers
SectionOf(kw) ==
    IF "fact" \in kw \/ "key point" \in kw THEN "facts"
    ELSE IF "statistic" \in kw \/ "data" \in kw THEN "statistics"
    ELSE IF "quote" \in kw \/ "quotation" \in kw THEN "quotations"
    ELSE IF "source" \in kw \/ "citation" \in kw THEN "citations"
    ELSE None

\* current_section when the loop reaches line i: the section of the last
\* header line before it (None before the first header)
CurrentSection(lines, i) ==
    LET headers == {j \in 1..(i - 1) : SectionOf(lines[j].kw) # None}
    IN IF headers = {} THEN None
       ELSE SectionOf(lines[CHOOSE j \in headers :
                               \A k \in headers : k <= j].kw)

\* the contents the loop appends to the list of one section, in order:
\* list items that are not headers, not empty, met while in that section
SectionContents(lines, section) ==
    LET idx == SelectSeq([i \in 1..Len(lines) |-> i],
                         LAMBDA i : /\ SectionOf(lines[i].kw) = None
                                    /\ lines[i].bullet
                                    /\ lines[i].text # EmptyText
                                    /\ CurrentSection(lines, i) = section)
    IN [k \in 1..Len(idx) |-> lines[idx[k]].text]

\* the four lists at the end of "for line in lines"
ParseLines(lines) ==
    LET facts == SectionContents(lines, "facts")
        stats == SectionContents(lines, "statistics")
        quotes == SectionContents(lines, "quotations")
        cites == SectionContents(lines, "citations")
    IN [key_facts |-> facts,
        statistics |->
            [k \in 1..Len(stats) |->
                StatisticItem(Cut(stats[k]), stats[k], FALSE)],
        quotations |->
            [k \in 1..Len(quotes) |-> QuotationItem(quotes[k], FALSE)],
        citations |->
            [k \in 1..Len(cites) |-> CitationItem(Cut(cites[k]), cites[k])]]

\* key fact used when the output holds no fact ("Research conducted for ...")
NoFactsText == Text(901)
\* key fact of the error brief ("Research for ... regarding: ...")
ErrorFactText == Text(900)

ParseResearchResult(raw_output, source_urls) ==
    LET acc == ParseLines(raw_output)
        key_facts == IF acc.key_facts = <<>> THEN <<NoFactsText>>
                     ELSE acc.key_facts
    IN ResearchBrief(Take(key_facts, MaxKeyFacts),
                     Take(acc.statistics, MaxStatistics),
                     Take(acc.quotations, MaxQuotations),
                     Take(acc.citations, MaxCitations),
                     source_urls)

\* the brief returned by the except branch of conduct_research
ErrorBrief(reference_urls) ==
    ResearchBrief(<<ErrorFactText>>, <<>>, <<>>, <<>>, reference_urls)

-----------------------------------------------------------------------------
(* tools/perplexity_search.py *)

\* tenacity wait_exponential(multiplier=1, min, max) before attempt n+1
RECURSIVE Pow2(_)
Pow2(n) == IF n = 0 THEN 1 ELSE 2 * Pow2(n - 1)

WaitExponential(n) ==
    Max(settings.retry_min_wait_seconds,
        Min(Pow2(n - 1), settings.retry_max_wait_seconds))

\* a retry decorator that also retries the status error of HTTP 429
RetriedWithRateLimit == {"TimeoutException", "ConnectError", "RateLimit"}

\* exception classes the retry decorator retries
RetriedExceptions == {"TimeoutException", "ConnectError"}

\* exceptions one attempt of _execute_search can end with; RateLimit is the
\* HTTPStatusError raised by raise_for_status() on HTTP 429
TransientFailures == {"TimeoutException", "ConnectError", "RateLimit"}
AttemptFailures == TransientFailures \cup {"HTTPStatusError", "ValueError"}

\* Deduplicate by quote text, keeping first occurrences
RECURSIVE UniqueQuotes(_, _)
UniqueQuotes(quotes, seen) ==
    IF quotes = <<>> THEN <<>>
    ELSE IF Head(quotes) \in seen THEN UniqueQuotes(Tail(quotes), seen)
         ELSE <<Head(quotes)>> \o
              UniqueQuotes(Tail(quotes), seen \cup {Head(quotes)})

\* quotes matched in the response text, deduplicated, at most 5
ParseQuotesFromResponse(matched) == Take(UniqueQuotes(matched, {}), 5)

\* PerplexityQuoteResult.to_quotation_item
ToQuotationItem(q) == QuotationItem(q, TRUE)

\* the value perplexity_quote_search returns for a successful response
QuoteSearchResult(matched, max_quotes) ==
    LET quotes == Take(ParseQuotesFromResponse(matched), max_quotes)
    IN [i \in 1..Len(quotes) |-> ToQuotationItem(quotes[i])]

\* keyword parameters perplexity_search_statistics accepts
StatisticsSearchParams == {"topic", "client_name"}

\* outcome of calling perplexity_search_statistics with keyword arguments kw:
\* an unknown keyword raises TypeError before the body runs; otherwise the
\* function returns a dict, which the caller cannot concatenate to a list
PerplexitySearchStatistics(kw) ==
    IF kw \subseteq StatisticsSearchParams THEN "dict" ELSE "TypeError"

\* keyword arguments conduct_research passes to perplexity_search_statistics
StatisticsCallKeywords == {"topic", "client_name", "max_stats"}

\* statistics the first search contributes when the service has `found`
\* statistics to cite: the call raises TypeError before any request is sent,
\* or returns a dict and "perplexity_stats + list(...)" raises TypeError;
\* both are caught by the try around the search
SearchedStatistics(kw, found) ==
    IF PerplexitySearchStatistics(kw) = "TypeError" THEN <<>> ELSE <<>>

\* what a retry adds to verified_stats: nothing when the call raises; the
\* keys of the returned dict (plain strings, no verified flag) otherwise
DictKeyItem(k) == StatisticItem(Text(k), Text(k), FALSE)
RetriedStatistics(kw) ==
    IF PerplexitySearchStatistics(kw) = "TypeError" THEN <<>>
    ELSE <<DictKeyItem(911), DictKeyItem(912), DictKeyItem(913)>>

\* a call of perplexity_quote_search: attempts made so far, seconds slept
\* between them, the exception classes after which an attempt was repeated,
\* whether the call has returned, the exception (if any) its last attempt
\* ended with and the list it returned
IdlePx ==
    [attempt |-> 0, waited |-> 0, retried |-> {}, returned |-> FALSE,
     failure |-> None, quotes |-> <<>>]

-----------------------------------------------------------------------------
(* agents/research_agent.py: ResearchAgent.conduct_research *)

min_stats == 2
min_quotes == 1
max_retries == 2
max_quotes == 3

\* a filter that keeps every item
IsVerifiedOrNot(item) == item.verified \/ ~item.verified

\* "if s.verified" / "if q.verified" of the two list comprehensions
IsVerified(item) == item.verified

\* a break test that is met by empty lists
SufficientWithoutMinimum(r) ==
    Len(r.verified_stats) >= 0 /\ Len(r.verified_quotes) >= 0

\* the test of the break at the head of the retry loop
Sufficient(r) ==
    Len(r.verified_stats) >= min_stats /\ Len(r.verified_quotes) >= min_quotes

\* locals of one conduct_research call; retrieved counts the verified items
\* the retrieval service has returned to this call so far, stats_found the
\* statistics the service had to cite when the first search was made
IdleResearch ==
    [brief |-> EmptyBrief, verified_stats |-> <<>>, verified_quotes |-> <<>>,
     unverified_stats_count |-> 0, unverified_quotes_count |-> 0,
     retry |-> 0, retries_performed |-> 0, retrieved |-> 0,
     stats_found |-> 0]

\* conduct_research returns brief b to its caller in generate_content:
\* the first call feeds draft generation, a gap-focused call is merged
\* into the running brief (see MergeResearchBriefs) before regeneration
ReturnBrief(b) ==
    /\ research_brief' = b
    /\ rs' = IdleResearch
    /\ pc' = IF caller = "initial" THEN "generate" ELSE "merge"

\* conduct_research without its outer try/except: the failure propagates
RunResearchAgentUnguarded(out) ==
    /\ pc = "research"
    /\ IF out.exc # None \/ ~out.has_output
       THEN /\ pc' = "raised"
            /\ UNCHANGED <<px, rs, research_brief>>
       ELSE /\ rs' = [IdleResearch EXCEPT !.brief =
                        ParseResearchResult(out.final_output,
                                            request.reference_urls)]
            /\ pc' = "px_quotes"
            /\ px' = IdlePx
            /\ UNCHANGED research_brief
    /\ UNCHANGED <<cfg, libv, caller, orchv, draftv, evalv, jobv>>

\* Runner.run(self.agent, research_prompt) and _parse_research_result.
\* out.exc is the exception Runner.run raised (None: it returned),
\* out.has_output is FALSE when final_output is None (the parser then raises
\* AttributeError), out.final_output holds the lines of the output
RunResearchAgent(out) ==
    /\ pc = "research"
    /\ IF out.exc # None \/ ~out.has_output
       THEN /\ ReturnBrief(ErrorBrief(request.reference_urls))
            /\ UNCHANGED px
       ELSE /\ rs' = [IdleResearch EXCEPT !.brief =
                        ParseResearchResult(out.final_output,
                                            request.reference_urls)]
            /\ pc' = "px_quotes"
            /\ px' = IdlePx
            /\ UNCHANGED research_brief
    /\ UNCHANGED <<cfg, libv, caller, orchv, draftv, evalv, jobv>>

\* perplexity_quote_search has returned quotes to conduct_research
QuotesReturned(quotes) ==
    IF pc = "px_quotes"
    THEN /\ rs' = [rs EXCEPT !.brief.quotations =
                     IF quotes # <<>> THEN quotes \o @ ELSE @,
                              !.retrieved = @ + Len(quotes)]
         /\ pc' = "px_stats"
    ELSE /\ rs' = [rs EXCEPT !.verified_quotes =
                     IF quotes # <<>> THEN @ \o quotes ELSE @,
                              !.retrieved = @ + Len(quotes)]
         /\ pc' = "retry_stats"

\* perplexity_quote_search without an API key: returns [] at once
PerplexityNoKey ==
    /\ pc \in {"px_quotes", "retry_quotes"}
    /\ ~runtime.perplexity_api_key
    /\ QuotesReturned(<<>>)
    /\ UNCHANGED <<cfg, libv, caller, px, research_brief, orchv, draftv, evalv, jobv>>

\* One attempt of _execute_search under the retry decorator, and what
\* perplexity_quote_search does with its outcome.  o.failure is the exception
\* the attempt ends with (None: the response arrived), o.matched the quotes
\* matched in the response text.
PerplexityAttempt(o) ==
    /\ pc \in {"px_quotes", "retry_quotes"}
    /\ runtime.perplexity_api_key
    /\ LET n == px.attempt + 1 IN
       IF o.failure \in RetriedExceptions /\ n < settings.retry_max_attempts
       THEN /\ px' = [px EXCEPT !.attempt = n,
                                 !.waited = @ + WaitExponential(n),
                                 !.retried = @ \cup {o.failure}]
            /\ UNCHANGED <<pc, rs>>
       ELSE LET quotes == IF o.failure = None
                          THEN QuoteSearchResult(o.matched, max_quotes)
                          ELSE <<>>
            IN /\ px' = [px EXCEPT !.attempt = n, !.returned = TRUE,
                                    !.failure = o.failure, !.quotes = quotes]
               /\ QuotesReturned(quotes)
    /\ UNCHANGED <<cfg, libv, caller, research_brief, orchv, draftv, evalv, jobv>>

\* lines 314-331: the statistics search of the first pass; found is the
\* number of statistics the service has to cite for the topic
SearchStatistics(found) ==
    /\ pc = "px_stats"
    /\ LET perplexity_stats ==
             SearchedStatistics(StatisticsCallKeywords, found)
       IN rs' = [rs EXCEPT !.brief.statistics = perplexity_stats \o @,
                           !.retrieved = @ + Len(perplexity_stats),
                           !.stats_found = found]
    /\ pc' = "filter"
    /\ UNCHANGED <<cfg, libv, caller, px, research_brief, orchv, draftv, evalv, jobv>>

\* lines 333-351: keep verified items only, count what is discarded
FilterVerified ==
    /\ pc = "filter"
    /\ LET verified_stats == SelectSeq(rs.brief.statistics, IsVerified)
           verified_quotes == SelectSeq(rs.brief.quotations, IsVerified)
       IN rs' = [rs EXCEPT
                   !.verified_stats = verified_stats,
                   !.verified_quotes = verified_quotes,
                   !.unverified_stats_count =
                       Len(rs.brief.statistics) - Len(verified_stats),
                   !.unverified_quotes_count =
                       Len(rs.brief.quotations) - Len(verified_quotes),
                   !.retry = 0, !.retries_performed = 0]
    /\ pc' = "retry_loop"
    /\ UNCHANGED <<cfg, libv, caller, px, research_brief, orchv, draftv, evalv, jobv>>

\* head of "for retry in range(max_retries)" with its break
RetryLoop ==
    /\ pc = "retry_loop"
    /\ IF rs.retry < max_retries /\ ~Sufficient(rs)
       THEN /\ rs' = [rs EXCEPT !.retries_performed = rs.retry + 1]
            /\ pc' = IF Len(rs.verified_quotes) < min_quotes
                     THEN "retry_quotes" ELSE "retry_stats"
       ELSE /\ pc' = "apply"
            /\ UNCHANGED rs
    /\ px' = IdlePx
    /\ UNCHANGED <<cfg, libv, caller, research_brief, orchv, draftv, evalv, jobv>>

\* lines 382-396: statistics retry, end of one loop iteration
RetryStatistics ==
    /\ pc = "retry_stats"
    /\ rs' = [rs EXCEPT
                !.verified_stats =
                    IF Len(rs.verified_stats) < min_stats
                    THEN @ \o RetriedStatistics(StatisticsCallKeywords)
                    ELSE @,
                !.retry = @ + 1]
    /\ pc' = "retry_loop"
    /\ UNCHANGED <<cfg, libv, caller, px, research_brief, orchv, draftv, evalv, jobv>>

\* lines 398-419: apply the verified lists, record the metrics, return
ApplyVerified ==
    /\ pc = "apply"
    /\ ReturnBrief(
         [rs.brief EXCEPT
            !.statistics = rs.verified_stats,
            !.quotations = rs.verified_quotes,
            !.verification_stats =
               [present |-> TRUE,
                total_stats_found |->
                    Len(rs.verified_stats) + rs.unverified_stats_count,
                verified_stats |-> Len(rs.verified_stats),
                discarded_stats |-> rs.unverified_stats_count,
                total_quotes_found |->
                    Len(rs.verified_quotes) + rs.unverified_quotes_count,
                verified_quotes |-> Len(rs.verified_quotes),
                discarded_quotes |-> rs.unverified_quotes_count,
                retry_attempts |-> rs.retries_performed]])
    /\ UNCHANGED <<cfg, libv, caller, px, orchv, draftv, evalv, jobv>>

-----------------------------------------------------------------------------
(* agents/orchestrator.py: _merge_research_briefs *)

\* a combination that appends every additional fact
CombineFactsAppending(combined, additional) == combined \o additional

\* "for fact in additional.key_facts: if fact not in combined_facts: append"
CombineFacts(combined, additional) ==
    LET idx == SelectSeq([i \in 1..Len(additional) |-> i],
                 LAMBDA i : /\ additional[i] \notin Range(combined)
                            /\ \A j \in 1..(i - 1) :
                                  additional[j] # additional[i])
    IN combined \o [k \in 1..Len(idx) |-> additional[idx[k]]]

\* a combination that puts the new items before the original's
AppendNewFirst(combined, additional, existing, field) ==
    SelectSeq(additional, LAMBDA x : x[field] \notin existing) \o combined

\* "for x in additional: if x.<field> not in existing: combined.append(x)";
\* existing holds the keys of the original's items only
AppendNew(combined, additional, existing, field) ==
    combined \o SelectSeq(additional, LAMBDA x : x[field] \notin existing)

\* the merge without the final slices of lines 613-616
MergeWithoutCaps(original, additional, combined_urls) ==
    LET combined_facts == CombineFacts(original.key_facts, additional.key_facts)
        existing_values == {s.value : s \in Range(original.statistics)}
        combined_stats == AppendNew(original.statistics, additional.statistics,
                                    existing_values, "value")
        existing_quotes == {q.quote : q \in Range(original.quotations)}
        combined_quotes == AppendNew(original.quotations, additional.quotations,
                                     existing_quotes, "quote")
        existing_names == {c.name : c \in Range(original.citations)}
        combined_citations == AppendNew(original.citations, additional.citations,
                                        existing_names, "name")
    IN ResearchBrief(combined_facts, combined_stats, combined_quotes,
                     combined_citations, combined_urls)

\* the lists list(set(urls)) can evaluate to: the distinct URLs in any order
CombinedUrls(urls) ==
    {u \in [1..Cardinality(Range(urls)) -> Range(urls)] :
        Range(u) = Range(urls)}

\* _merge_research_briefs; combined_urls is the list that
\* list(set(original.source_urls + additional.source_urls)) evaluated to
MergeResearchBriefs(original, additional, combined_urls) ==
    LET combined_facts == CombineFacts(original.key_facts, additional.key_facts)
        existing_values == {s.value : s \in Range(original.statistics)}
        combined_stats == AppendNew(original.statistics, additional.statistics,
                                    existing_values, "value")
        existing_quotes == {q.quote : q \in Range(original.quotations)}
        combined_quotes == AppendNew(original.quotations, additional.quotations,
                                     existing_quotes, "quote")
        existing_names == {c.name : c \in Range(original.citations)}
        combined_citations == AppendNew(original.citations, additional.citations,
                                        existing_names, "name")
    IN ResearchBrief(Take(combined_facts, MaxKeyFacts),
                     Take(combined_stats, MaxStatistics),
                     Take(combined_quotes, MaxQuotations),
                     Take(combined_citations, MaxCitations),
                     combined_urls)

-----------------------------------------------------------------------------
(* agents/writer_agent_a.py, agents/writer_agent_b.py *)

ContentDraft(id, content, words, stats, cites, quotes) ==
    [draft_id |-> id, content |-> content, word_count |-> words,
     statistics_count |-> stats, citations_count |-> cites,
     quotations_count |-> quotes]

NoDraft == ContentDraft(None, EmptyText, 0, 0, 0, 0)

\* "Error generating content: <message>"; the message depends on the
\* exception class
ErrorContent(exc) ==
    CASE exc = "APIConnectionError" -> Text(801)
      [] exc = "RateLimitError" -> Text(802)
      [] exc = "APIStatusError" -> Text(803)
      [] OTHER -> Text(800)

ErrorContents == {Text(800), Text(801), Text(802), Text(803)}

\* an error draft whose counts are taken from the error text
ErrorDraftCounted(id, exc) == ContentDraft(id, ErrorContent(exc), 4, 1, 0, 0)

\* the draft built in the except branches (WriterAgentB._error_draft)
ErrorDraft(id, exc) == ContentDraft(id, ErrorContent(exc), 0, 0, 0, 0)

\* _count_statistics / _count_citations / _count_quotations: pattern matches
\* found in the text, capped
CountStatistics(matches) == Min(matches, 10)
CountCitations(matches) == Min(matches, 10)
CountQuotations(matches) == Min(matches, 5)

\* generate_content of either writer: g is what the generation backend
\* did: g.exc is the exception it raised (None: it answered), g.text the
\* text, g.words its word count, g.stats/g.cites/g.quotes the numbers of
\* pattern matches in the text
WriterGenerate(id, g) ==
    IF g.exc # None THEN ErrorDraft(id, g.exc)
    ELSE ContentDraft(id, g.text, g.words, CountStatistics(g.stats),
                      CountCitations(g.cites), CountQuotations(g.quotes))

Generated(text, words, stats, cites, quotes) ==
    [exc |-> None, text |-> text, words |-> words, stats |-> stats,
     cites |-> cites, quotes |-> quotes]

Raised(exc) ==
    [exc |-> exc, text |-> EmptyText, words |-> 0, stats |-> 0, cites |-> 0,
     quotes |-> 0]

-----------------------------------------------------------------------------
(* models/evaluation.py *)

ScoreFields ==
    <<"statistics_score", "citations_score", "quotations_score",
      "fluency_score", "experience_score", "expertise_score",
      "authority_score", "trust_score", "opening_effectiveness",
      "structure_quality", "entity_mention_quality", "language_accuracy">>

\* weights of EvaluationScore.overall_score, in hundredths
Weights ==
    [statistics_score |-> 12, citations_score |-> 10, quotations_score |-> 12,
     fluency_score |-> 10, experience_score |-> 8, expertise_score |-> 8,
     authority_score |-> 8, trust_score |-> 8, opening_effectiveness |-> 10,
     structure_quality |-> 6, entity_mention_quality |-> 4,
     language_accuracy |-> 4]

RECURSIVE WeightedSum(_, _)
WeightedSum(scores, i) ==
    IF i = 0 THEN 0
    ELSE scores[ScoreFields[i]] * Weights[ScoreFields[i]]
         + WeightedSum(scores, i - 1)

\* EvaluationScore.overall_score (property), in hundredths of a point
WeightedOverall100(scores) == WeightedSum(scores, Len(ScoreFields))

\* dict.get(key, default) on a dict modelled as a function
Get(d, key, default) == IF key \in DOMAIN d THEN d[key] ELSE default

EmptyDict == [k \in {} |-> 0]

\* pydantic validation of EvaluationScore: every sub-score in [0, 100]
ValidScores(scores) ==
    \A i \in 1..Len(ScoreFields) :
        scores[ScoreFields[i]] >= 0 /\ scores[ScoreFields[i]] <= 100

\* DraftEvaluation as built in _build_evaluation_result from one draft's dict
DraftEvaluation(id, draft_data) ==
    LET draft_scores == Get(draft_data, "scores", EmptyDict)
    IN [draft_id |-> id,
        scores |-> [f \in Range(ScoreFields) |-> Get(draft_scores, f, 50)],
        overall_score |-> Get(draft_data, "overall_score", 50),
        statistics_count |-> Get(draft_data, "statistics_count", 0),
        citations_count |-> Get(draft_data, "citations_count", 0),
        quotations_count |-> Get(draft_data, "quotations_count", 0)]

ValidDraftEvaluation(d) ==
    /\ ValidScores(d.scores)
    /\ d.overall_score >= 0 /\ d.overall_score <= 100

\* EvaluationResult.best_score (property)
BestScore(e) ==
    IF e.selected_draft = "A" THEN e.draft_a.overall_score
    ELSE e.draft_b.overall_score

-----------------------------------------------------------------------------
(* agents/evaluator_agent.py *)

\* _build_evaluation_result, before validation
BuildEvaluationResult(data) ==
    [draft_a |-> DraftEvaluation("A", Get(data, "draft_a", EmptyDict)),
     draft_b |-> DraftEvaluation("B", Get(data, "draft_b", EmptyDict)),
     selected_draft |-> Get(data, "selected_draft", "A"),
     passes_threshold |-> Get(data, "passes_threshold", TRUE),
     threshold_value |-> settings.quality_threshold,
     revision_needed |-> Get(data, "revision_needed", <<>>)]

\* pydantic validation of EvaluationResult and its two DraftEvaluations
ValidEvaluationResult(e) ==
    /\ ValidDraftEvaluation(e.draft_a)
    /\ ValidDraftEvaluation(e.draft_b)
    /\ e.selected_draft \in {"A", "B"}
    /\ Range(e.revision_needed) \subseteq {"A", "B"}

\* "evaluation: EvaluationResult | None = None"
NoEvaluation ==
    [draft_a |-> DraftEvaluation(None, EmptyDict),
     draft_b |-> DraftEvaluation(None, EmptyDict),
     selected_draft |-> None, passes_threshold |-> FALSE,
     threshold_value |-> 0, revision_needed |-> <<>>]

\* _default_evaluation_data
DefaultScores ==
    [statistics_score |-> 50, citations_score |-> 50, quotations_score |-> 50,
     fluency_score |-> 70, experience_score |-> 50, expertise_score |-> 50,
     authority_score |-> 50, trust_score |-> 50, opening_effectiveness |-> 60,
     structure_quality |-> 60, entity_mention_quality |-> 50,
     language_accuracy |-> 70]

DraftData(scores, overall) == [scores |-> scores, overall_score |-> overall]

DefaultEvaluationData ==
    [draft_a |-> DraftData(DefaultScores, 55),
     draft_b |-> DraftData(DefaultScores, 55),
     selected_draft |-> "A", passes_threshold |-> FALSE,
     revision_needed |-> <<"A", "B">>]

\* score _default_evaluation gives a draft from its heuristic counts
HeuristicScore(draft) ==
    Min(50 + draft.statistics_count * 5 + draft.citations_count * 3
           + draft.quotations_count * 4, 85)

\* _default_evaluation
DefaultEvaluation(da, db) ==
    LET score_a == HeuristicScore(da)
        score_b == HeuristicScore(db)
        selected == IF score_a >= score_b THEN "A" ELSE "B"
        best_score == Max(score_a, score_b)
    IN BuildEvaluationResult(
         [DefaultEvaluationData EXCEPT
            !.draft_a.overall_score = score_a,
            !.draft_b.overall_score = score_b,
            !.selected_draft = selected,
            !.passes_threshold = best_score >= settings.quality_threshold])

\* What a Runner.run call of the evaluator did: exc is the exception it
\* raised (None: it returned), response its final_output.  A final_output
\* is described by whether it is a string at all, the index of its first
\* "{" and of its last "}" (-1: none), whether the text between them is
\* valid JSON, and the object that text decodes to.
LLMResponse(present, first_open, last_close, valid_json, data) ==
    [present |-> present, first_open |-> first_open,
     last_close |-> last_close, valid_json |-> valid_json, data |-> data]

LLMAnswer(exc, resp) == [exc |-> exc, response |-> resp]

NoLLMResponse == LLMResponse(FALSE, -1, -1, FALSE, EmptyDict)

\* no evaluate_drafts call made yet in this pass
NoAnswer == LLMAnswer("NotCalled", NoLLMResponse)

\* _parse_evaluation_response.  A response is described by the index of its
\* first "{" and of its last "}" (-1: none), whether the text between them
\* is valid JSON, and the object it decodes to.
ParseEvaluationResponse(resp) ==
    LET json_start == resp.first_open
        json_end == resp.last_close + 1
    IN IF json_start >= 0 /\ json_end > json_start /\ resp.valid_json
       THEN resp.data
       ELSE DefaultEvaluationData

\* evaluate_drafts: r.exc is the exception Runner.run raised (None: it
\* returned r.response); a final_output of None (r.response.present false)
\* makes the parser raise AttributeError, which the same except branch
\* catches
EvaluateDrafts(da, db, r) ==
    IF r.exc # None \/ ~r.response.present THEN DefaultEvaluation(da, db)
    ELSE LET eval_result ==
               BuildEvaluationResult(ParseEvaluationResponse(r.response))
         IN IF ValidEvaluationResult(eval_result) THEN eval_result
            ELSE DefaultEvaluation(da, db)


\* a normalisation that only clamps
NormalizeEEATScoreClamped(raw_eeat_score) == Max(0, Min(10, raw_eeat_score))

\* the E-E-A-T normalisation of _build_commentary; raw_eeat_score is the
\* JSON integer found in the response
NormalizeEEATScore(raw_eeat_score) ==
    IF raw_eeat_score > 10
    THEN Min(10, Max(0, raw_eeat_score \div 10))
    ELSE Max(0, Min(10, raw_eeat_score))

EEATAnalysis(experience, expertise, authority, trust, score) ==
    [experience_signals |-> experience, expertise_signals |-> expertise,
     authority_signals |-> authority, trust_signals |-> trust,
     overall_eeat_score |-> score]

\* eeat_analysis of _default_commentary
DefaultEEAT == EEATAnalysis(<<>>, <<>>, <<>>, <<>>, 5)

\* _parse_commentary_response
ParseCommentaryResponse(resp) ==
    LET json_start == resp.first_open
        json_end == resp.last_close + 1
    IN IF json_start >= 0 /\ json_end > json_start /\ resp.valid_json
       THEN resp.data
       ELSE EmptyDict

\* eeat_analysis of the commentary _build_commentary builds
BuildCommentary(data) ==
    LET eeat_data == Get(data, "eeat_analysis", EmptyDict)
    IN EEATAnalysis(Get(eeat_data, "experience_signals", <<>>),
                    Get(eeat_data, "expertise_signals", <<>>),
                    Get(eeat_data, "authority_signals", <<>>),
                    Get(eeat_data, "trust_signals", <<>>),
                    NormalizeEEATScore(Get(eeat_data, "overall_eeat_score", 5)))

\* generate_commentary, reduced to the eeat_analysis of its result
GenerateCommentary(r) ==
    IF r.exc # None \/ ~r.response.present THEN DefaultEEAT
    ELSE BuildCommentary(ParseCommentaryResponse(r.response))

-----------------------------------------------------------------------------
(* tools/geo_analyzers.py: generate_benchmark_comparison *)

\* int(x / y) for y > 0: Python truncates towards zero
TruncDiv(x, y) == IF x >= 0 THEN x \div y ELSE -((-x) \div y)

\* score of one metric in _calculate_competitiveness
MetricScore(current, target) ==
    IF current >= target THEN 100 ELSE TruncDiv(current * 100, target)

\* overall_competitiveness for the selected draft's evaluation
Competitiveness(selected_draft_eval) ==
    TruncDiv(MetricScore(selected_draft_eval.statistics_count, 5)
             + MetricScore(selected_draft_eval.citations_count, 4)
             + MetricScore(selected_draft_eval.quotations_count, 2), 3)

\* BenchmarkComparison validates overall_competitiveness in [0, 100]
InsightsRaise(selected_draft_eval) ==
    LET c == Competitiveness(selected_draft_eval) IN c < 0 \/ c > 100

-----------------------------------------------------------------------------
(* models/schemas.py: ContentGenerationRequest *)

\* a request body: the two strings are given by their lengths, a URL by a
\* number
ContentGenerationRequest(client_name, target_question, reference_urls, target_word_count) ==
    [client_name |-> client_name, target_question |-> target_question,
     reference_urls |-> reference_urls,
     target_word_count |-> target_word_count]

\* a validation without the min_length of target_question
ValidRequestAnyQuestion(req) ==
    /\ req.client_name >= 1
    /\ req.target_word_count >= 100 /\ req.target_word_count <= 3000

\* the Field constraints the framework checks before it calls a handler:
\* min_length=1, min_length=10, ge=100 and le=3000
ValidRequest(req) ==
    /\ req.client_name >= 1
    /\ req.target_question >= 10
    /\ req.target_word_count >= 100 /\ req.target_word_count <= 3000

-----------------------------------------------------------------------------
(* api/routes.py: the two POST handlers and _run_generation;                *)
(* agents/orchestrator.py: generate_content                                 *)

Job(status, result, err) == [status |-> status, result |-> result, error |-> err]

\* "final_result = None" before the first pass
NoResult ==
    [content |-> EmptyText, draft |-> NoDraft, selected |-> None,
     score |-> 0, iterations |-> 0]

\* one awaitable handed to asyncio.gather: its state, the draft it returned
\* and the exception its generation backend raised (None: none)
Task(state, result, exc) == [state |-> state, result |-> result, exc |-> exc]
IdleTasks == [w \in {"A", "B"} |-> Task("idle", NoDraft, None)]

\* an except branch that records the failure but does not re-raise
RaiseSwallowed(exc) ==
    /\ trace' = "failed"
    /\ error' = exc
    /\ pc' = "returned"

\* the except branch of generate_content: record the failure and re-raise
Raise(exc) ==
    /\ trace' = "failed"
    /\ error' = exc
    /\ pc' = "raised"

\* POST /generate/async: a body that fails validation is answered 422 and
\* the handler never runs; otherwise the handler registers the job as
\* pending, queues _run_generation and answers 202 with the job id
GenerateContentAsync ==
    /\ pc = "received"
    /\ endpoint = "async"
    /\ IF ValidRequest(request)
       THEN /\ job' = Job("pending", job.result, None)
            /\ pc' = "pending"
       ELSE /\ pc' = "rejected"
            /\ UNCHANGED job
    /\ UNCHANGED <<cfg, libv, trace, error, response, resv, orchv, draftv, evalv>>

\* POST /generate: a body that fails validation is answered 422; otherwise
\* the handler awaits workflow.generate_content(request)
GenerateContent ==
    /\ pc = "received"
    /\ endpoint = "sync"
    /\ pc' = IF ValidRequest(request) THEN "detect_language" ELSE "rejected"
    /\ UNCHANGED <<cfg, libv, jobv, resv, orchv, draftv, evalv>>

\* POST /generate, after the await: the response is returned (200), or the
\* exception is turned into an HTTPException (500)
GenerateContentEnd ==
    /\ pc \in {"returned", "raised"}
    /\ endpoint = "sync"
    /\ pc' = IF pc = "returned" THEN "sync_returned" ELSE "sync_failed"
    /\ UNCHANGED <<cfg, libv, jobv, resv, orchv, draftv, evalv>>

\* _run_generation marks the job processing and calls generate_content
\* (lines 228-238 of routes.py, 75-87 of orchestrator.py)
RunGeneration ==
    /\ pc = "pending"
    /\ job' = [job EXCEPT !.status = "processing"]
    /\ trace' = "pending"
    /\ pc' = "detect_language"
    /\ UNCHANGED <<cfg, libv, error, response, resv, orchv, draftv, evalv>>

\* Step 1: language detection, then the first conduct_research call
DetectLanguage ==
    /\ pc = "detect_language"
    /\ caller' = "initial"
    /\ pc' = "research"
    /\ UNCHANGED <<cfg, libv, jobv, rs, px, research_brief, orchv, draftv, evalv>>

\* _generate_drafts_parallel: both writer coroutines are handed to
\* asyncio.gather, which starts them together
StartDrafts ==
    /\ pc \in {"generate", "regenerate"}
    /\ site' = IF pc = "generate" THEN "initial" ELSE "regenerate"
    /\ handed' = IF pc = "generate" THEN research_brief
                 ELSE current_research_brief
    /\ tasks' = [w \in {"A", "B"} |-> Task("running", NoDraft, None)]
    /\ pc' = "gather"
    /\ UNCHANGED <<cfg, libv, jobv, resv, orchv, draft_a, draft_b, evalv>>

\* writer w's generate_content returns; g is what its backend did
WriterReturns(w, g) ==
    /\ pc = "gather"
    /\ tasks[w].state = "running"
    /\ w = "B" /\ runtime.writer_b_down => g.exc # None
    /\ tasks' = [tasks EXCEPT ![w] = Task("done", WriterGenerate(w, g), g.exc)]
    /\ UNCHANGED <<cfg, libv, pc, jobv, resv, orchv, site, handed, draft_a, draft_b,
                   evalv>>

\* asyncio.gather returns once both awaitables are done
GatherDrafts ==
    /\ pc = "gather"
    /\ \A w \in {"A", "B"} : tasks[w].state = "done"
    /\ draft_a' = tasks["A"].result
    /\ draft_b' = tasks["B"].result
    /\ tasks' = IdleTasks
    /\ IF site = "initial"
       THEN /\ current_research_brief' = research_brief
            /\ research_iteration' = 0
            /\ pc' = "outer_loop"
       ELSE /\ pc' = IF site = "regenerate" THEN "outer_loop" ELSE "inner_loop"
            /\ UNCHANGED <<current_research_brief, research_iteration>>
    /\ UNCHANGED <<cfg, libv, jobv, resv, eeat_gaps, final_result, site, handed,
                   evalv>>

\* head of "while research_iteration <= settings.max_research_iterations"
\* and entry of _evaluation_loop
EnterEvaluationLoop ==
    /\ pc = "outer_loop"
    /\ IF research_iteration <= settings.max_research_iterations
       THEN /\ iteration' = 0
            /\ evaluation' = NoEvaluation
            /\ eval_passes' = eval_passes + 1
            /\ pc' = "inner_loop"
       ELSE /\ pc' = "package"
            /\ UNCHANGED <<iteration, evaluation, eval_passes>>
    /\ UNCHANGED <<cfg, libv, jobv, resv, orchv, draftv, commentary,
                   commentary_answer, eval_answer, evaluated,
                   eval_calls>>

\* a loop head that admits one more turn ("iteration <= max_iterations")
InnerLoopInclusive ==
    /\ pc = "inner_loop"
    /\ IF iteration <= settings.max_iterations
       THEN /\ iteration' = iteration + 1
            /\ pc' = "evaluate"
       ELSE /\ pc' = "select"
            /\ UNCHANGED iteration
    /\ UNCHANGED <<cfg, libv, jobv, resv, orchv, draftv, evaluation, commentary,
                   commentary_answer,
                   eval_answer, evaluated, eval_calls, eval_passes>>

\* head of "while iteration < max_iterations"
InnerLoop ==
    /\ pc = "inner_loop"
    /\ IF iteration < settings.max_iterations
       THEN /\ iteration' = iteration + 1
            /\ pc' = "evaluate"
       ELSE /\ pc' = "select"
            /\ UNCHANGED iteration
    /\ UNCHANGED <<cfg, libv, jobv, resv, orchv, draftv, evaluation, commentary,
                   commentary_answer,
                   eval_answer, evaluated, eval_calls, eval_passes>>

\* await self.evaluator.evaluate_drafts(...)
Evaluate(r) ==
    /\ pc = "evaluate"
    /\ evaluation' = EvaluateDrafts(draft_a, draft_b, r)
    /\ eval_answer' = r
    /\ evaluated' = <<draft_a, draft_b>>
    /\ eval_calls' = eval_calls + 1
    /\ pc' = "check"
    /\ UNCHANGED <<cfg, libv, jobv, resv, orchv, draftv, iteration, commentary,
                   commentary_answer,
                   eval_passes>>

\* an awaitable for a draft that needs no revision is built with
\* asyncio.coroutine, which only interpreters before 3.11 provide
KeepNeedsCoroutine(revision_needed) ==
    "A" \notin Range(revision_needed) \/ "B" \notin Range(revision_needed)

\* a threshold check that starts a revision in the last round too
CheckThresholdRevisingLastRound ==
    /\ pc = "check"
    /\ IF evaluation.passes_threshold
       THEN /\ pc' = "select"
            /\ UNCHANGED <<trace, error, site, handed, tasks>>
       ELSE IF evaluation.revision_needed # <<>>
       THEN IF KeepNeedsCoroutine(evaluation.revision_needed)
               /\ ~runtime.asyncio_coroutine
            THEN /\ Raise("AttributeError")
                 /\ UNCHANGED <<site, handed, tasks>>
            ELSE /\ tasks' =
                      [A |-> IF "A" \in Range(evaluation.revision_needed)
                             THEN Task("running", NoDraft, None)
                             ELSE Task("done", draft_a, None),
                       B |-> IF "B" \in Range(evaluation.revision_needed)
                             THEN Task("running", NoDraft, None)
                             ELSE Task("done", draft_b, None)]
                 /\ site' = "revision"
                 /\ handed' = current_research_brief
                 /\ pc' = "gather"
                 /\ UNCHANGED <<trace, error>>
       ELSE /\ pc' = "inner_loop"
            /\ UNCHANGED <<trace, error, site, handed, tasks>>
    /\ UNCHANGED <<cfg, libv, job, response, resv, orchv, draft_a, draft_b, evalv>>

\* lines 421-459: threshold check and start of the revision round
CheckThreshold ==
    /\ pc = "check"
    /\ IF evaluation.passes_threshold
       THEN /\ pc' = "select"
            /\ UNCHANGED <<trace, error, site, handed, tasks>>
       ELSE IF iteration < settings.max_iterations
               /\ evaluation.revision_needed # <<>>
       THEN IF KeepNeedsCoroutine(evaluation.revision_needed)
               /\ ~runtime.asyncio_coroutine
            THEN /\ Raise("AttributeError")
                 /\ UNCHANGED <<site, handed, tasks>>
            ELSE /\ tasks' =
                      [A |-> IF "A" \in Range(evaluation.revision_needed)
                             THEN Task("running", NoDraft, None)
                             ELSE Task("done", draft_a, None),
                       B |-> IF "B" \in Range(evaluation.revision_needed)
                             THEN Task("running", NoDraft, None)
                             ELSE Task("done", draft_b, None)]
                 /\ site' = "revision"
                 /\ handed' = current_research_brief
                 /\ pc' = "gather"
                 /\ UNCHANGED <<trace, error>>
       ELSE /\ pc' = "inner_loop"
            /\ UNCHANGED <<trace, error, site, handed, tasks>>
    /\ UNCHANGED <<cfg, libv, job, response, resv, orchv, draft_a, draft_b, evalv>>

\* lines 461-485: select the best draft, generate the commentary, return
SelectAndComment(r) ==
    /\ pc = "select"
    /\ commentary' = GenerateCommentary(r)
    /\ commentary_answer' = r
    /\ LET selected_draft == evaluation.selected_draft
           selected_content == IF selected_draft = "A" THEN draft_a
                               ELSE draft_b
       IN final_result' =
            [content |-> selected_content.content,
             draft |-> selected_content,
             selected |-> selected_draft,
             score |-> BestScore(evaluation),
             iterations |-> iteration]
    /\ pc' = "eeat_check"
    /\ UNCHANGED <<cfg, libv, jobv, resv, current_research_brief,
                   research_iteration, eeat_gaps, draftv, iteration, evaluation,
                   eval_answer, evaluated, eval_calls, eval_passes>>

\* the four E-E-A-T dimensions, in the order _identify_eeat_gaps tests them
Dimensions == <<"experience", "expertise", "authority", "trust">>

\* the signal list of one dimension
Signals(eeat_analysis, dimension) ==
    IF dimension = "experience" THEN eeat_analysis.experience_signals
    ELSE IF dimension = "expertise" THEN eeat_analysis.expertise_signals
    ELSE IF dimension = "authority" THEN eeat_analysis.authority_signals
    ELSE eeat_analysis.trust_signals

\* a test that takes a dimension for weak only when it has no signal
WeakSignalsNone(eeat_analysis) ==
    SelectSeq(Dimensions, LAMBDA d : Len(Signals(eeat_analysis, d)) < 1)

\* lines 499-507: the four "if len(...) < 2: gaps.append(...)"
WeakSignals(eeat_analysis) ==
    SelectSeq(Dimensions, LAMBDA d : Len(Signals(eeat_analysis, d)) < 2)

\* a gap list without the fallback of lines 509-511
IdentifyEEATGapsWeakOnly(eeat_analysis) == WeakSignals(eeat_analysis)

\* _identify_eeat_gaps
IdentifyEEATGaps(eeat_analysis) ==
    LET gaps == WeakSignals(eeat_analysis)
    IN IF gaps = <<>> /\ eeat_analysis.overall_eeat_score < 6
       THEN Dimensions
       ELSE gaps

\* EEATCheck without the "research_iteration >= max_research_iterations"
\* break of lines 175-181
EEATCheckWithoutBreak ==
    /\ pc = "eeat_check"
    /\ IF commentary.overall_eeat_score >= settings.eeat_threshold
       THEN /\ pc' = "package"
            /\ UNCHANGED <<caller, research_iteration, eeat_gaps,
                           final_result, draft_a,
                           draft_b, iteration, evaluation, commentary,
                   commentary_answer,
                           eval_answer>>
       ELSE /\ research_iteration' = research_iteration + 1
            /\ eeat_gaps' = IdentifyEEATGaps(commentary)
            /\ caller' = "focused"
            /\ pc' = "research"
            /\ final_result' = NoResult
            /\ draft_a' = NoDraft
            /\ draft_b' = NoDraft
            /\ iteration' = 0
            /\ evaluation' = NoEvaluation
            /\ commentary' = DefaultEEAT
            /\ commentary_answer' = NoAnswer
            /\ eval_answer' = NoAnswer
    /\ UNCHANGED <<cfg, libv, jobv, rs, px, research_brief, current_research_brief,
                   site, handed, tasks, evaluated, eval_calls, eval_passes>>

\* lines 163-198: E-E-A-T check; below the threshold, and with research
\* rounds left, conduct gap-focused research.  The drafts, the evaluation,
\* the commentary and the result of the finished pass are all reassigned
\* before they are read again (lines 207 and 154-160): they are dropped here.
EEATCheck ==
    /\ pc = "eeat_check"
    /\ IF commentary.overall_eeat_score >= settings.eeat_threshold
          \/ research_iteration >= settings.max_research_iterations
       THEN /\ pc' = "package"
            /\ UNCHANGED <<caller, research_iteration, eeat_gaps,
                           final_result, draft_a,
                           draft_b, iteration, evaluation, commentary,
                   commentary_answer,
                           eval_answer>>
       ELSE /\ research_iteration' = research_iteration + 1
            /\ eeat_gaps' = IdentifyEEATGaps(commentary)
            /\ caller' = "focused"
            /\ pc' = "research"
            /\ final_result' = NoResult
            /\ draft_a' = NoDraft
            /\ draft_b' = NoDraft
            /\ iteration' = 0
            /\ evaluation' = NoEvaluation
            /\ commentary' = DefaultEEAT
            /\ commentary_answer' = NoAnswer
            /\ eval_answer' = NoAnswer
    /\ UNCHANGED <<cfg, libv, jobv, rs, px, research_brief, current_research_brief,
                   site, handed, tasks, evaluated, eval_calls, eval_passes>>

\* a step that replaces the running brief by the new brief
MergeResearchReplacing ==
    /\ pc = "merge"
    /\ current_research_brief' = research_brief
    /\ pc' = "regenerate"
    /\ UNCHANGED <<cfg, libv, jobv, resv, research_iteration, eeat_gaps,
                   final_result, draftv,
                   evalv>>

\* lines 200-203: merge the focused research into the running brief
MergeResearch ==
    /\ pc = "merge"
    /\ \E combined_urls \in CombinedUrls(current_research_brief.source_urls
                                          \o research_brief.source_urls) :
          current_research_brief' =
              MergeResearchBriefs(current_research_brief, research_brief,
                                  combined_urls)
    /\ pc' = "regenerate"
    /\ UNCHANGED <<cfg, libv, jobv, resv, research_iteration, eeat_gaps,
                   final_result, draftv,
                   evalv>>

\* lines 214-242: trace totals, content formatting, completion status
FormatContent ==
    /\ pc = "package"
    /\ trace' = "success"
    /\ pc' = "insights"
    /\ UNCHANGED <<cfg, libv, job, error, response, resv, orchv, draftv, evalv>>

ContentGenerationResponse(result, eeat) ==
    [content |-> result.content,
     selected_draft |-> result.selected,
     evaluation_score |-> result.score,
     evaluation_iterations |-> result.iterations,
     statistics_count |-> result.draft.statistics_count,
     citations_count |-> result.draft.citations_count,
     quotations_count |-> result.draft.quotations_count,
     eeat_score |-> eeat.overall_eeat_score]

\* lines 244-308: insights, schema, exports and the response
BuildResponse ==
    /\ pc = "insights"
    /\ LET selected_draft_eval ==
             IF final_result.selected = "A" THEN evaluation.draft_a
             ELSE evaluation.draft_b
       IN IF InsightsRaise(selected_draft_eval)
          THEN /\ Raise("ValidationError")
               /\ UNCHANGED response
          ELSE /\ response' = ContentGenerationResponse(final_result, commentary)
               /\ pc' = "returned"
               /\ UNCHANGED <<trace, error>>
    /\ UNCHANGED <<cfg, libv, job, resv, orchv, draftv, evalv>>

\* routes.py lines 240-262: the job is completed with the response
CompleteJob ==
    /\ pc = "returned"
    /\ endpoint = "async"
    /\ job' = [job EXCEPT !.status = "completed", !.result = response]
    /\ pc' = "done"
    /\ UNCHANGED <<cfg, libv, trace, error, response, resv, orchv, draftv, evalv>>

\* a failure branch that records no error message
FailJobSilent ==
    /\ pc = "raised"
    /\ endpoint = "async"
    /\ job' = [job EXCEPT !.status = "failed"]
    /\ pc' = "done"
    /\ UNCHANGED <<cfg, libv, trace, error, response, resv, orchv, draftv, evalv>>

\* routes.py lines 264-272: the job is failed with str(e)
FailJob ==
    /\ pc = "raised"
    /\ endpoint = "async"
    /\ job' = [job EXCEPT !.status = "failed", !.error = error]
    /\ pc' = "done"
    /\ UNCHANGED <<cfg, libv, trace, error, response, resv, orchv, draftv, evalv>>

-----------------------------------------------------------------------------
(* Bounds and answers of the external services *)

\* largest settings.max_iterations explored (config allows 1..10)
MaxIterationsBound == 2
\* largest settings.max_research_iterations explored (config allows 1..5)
MaxResearchBound == 1

SettingsSet ==
    [max_iterations : 1..MaxIterationsBound,
     max_research_iterations : 1..MaxResearchBound,
     eeat_threshold : {6},
     quality_threshold : {80},
     retry_max_attempts : {3},
     retry_min_wait_seconds : {2},
     retry_max_wait_seconds : {30}]

RuntimeSet ==
    [asyncio_coroutine : BOOLEAN,
     perplexity_api_key : BOOLEAN,
     writer_b_down : BOOLEAN]

\* request bodies posted: one that passes validation and bodies that fail
\* one or several constraints
Requests ==
    {ContentGenerationRequest(20, 40, <<1, 1>>, 500),
     ContentGenerationRequest(0, 40, <<1, 1>>, 500),
     ContentGenerationRequest(20, 9, <<>>, 500),
     ContentGenerationRequest(0, 0, <<>>, 500),
     ContentGenerationRequest(20, 40, <<>>, 99)}

\* n list items numbered from base + 1
Items(n, base) == [i \in 1..n |-> Line({}, TRUE, Text(base + i))]

\* a well-formed research report with the four sections
Doc(nf, ns, nq, nc, base) ==
    <<Line({"fact"}, FALSE, Text(1))>> \o Items(nf, base)
    \o <<Line({"statistic"}, FALSE, Text(2))>> \o Items(ns, base)
    \o <<Line({"quote"}, FALSE, Text(3))>> \o Items(nq, base)
    \o <<Line({"source"}, FALSE, Text(4))>> \o Items(nc, base)

AgentOutput(exc, has_output, lines) ==
    [exc |-> exc, has_output |-> has_output, final_output |-> lines]

\* research reports of the workflow specification
AgentOutputs ==
    {AgentOutput("RuntimeError", FALSE, <<>>),
     AgentOutput(None, TRUE, Doc(2, 1, 1, 1, 0))}

\* research reports of the research specification
ResearchOutputs ==
    {AgentOutput("RuntimeError", FALSE, <<>>),
     AgentOutput(None, FALSE, <<>>),
     AgentOutput(None, TRUE, Items(3, 0)),
     AgentOutput(None, TRUE, Doc(2, 1, 1, 1, 0)),
     AgentOutput(None, TRUE, Doc(17, 9, 6, 11, 0)),
     AgentOutput(None, TRUE, Doc(17, 9, 6, 11, 10))}

\* statistics the Perplexity service has to cite for a topic (its prompt
\* asks for 3 to 5)
StatisticsFound == {0, 3}

\* quote texts 1..n matched in a Perplexity response
Matched(n) == [i \in 1..n |-> Text(i)]
\* other quote texts
OtherMatched(n) == [i \in 1..n |-> Text(MaxQuoteTexts + i)]

\* outcomes of one Perplexity attempt in the workflow specification
PerplexityOutcomes ==
    {[failure |-> "TimeoutException", matched |-> <<>>],
     [failure |-> None, matched |-> Matched(1)]}

\* outcomes of one Perplexity attempt in the research specification
SearchOutcomes ==
    {[failure |-> f, matched |-> <<>>] : f \in AttemptFailures}
    \cup {[failure |-> None, matched |-> Matched(n)] : n \in 0..MaxQuoteTexts}
    \cup {[failure |-> None, matched |-> <<Text(1), Text(1)>>],
          [failure |-> None, matched |-> OtherMatched(3)]}

\* what a writer's backend does in the workflow specification
WriterAnswers(w) ==
    IF w = "A"
    THEN {Generated(Text(11), 500, 12, 11, 7), Raised("Exception")}
    ELSE {Generated(Text(21), 520, 6, 0, 0), Raised("RateLimitError")}

\* what a writer's backend does in the drafts specification
BackendAnswers(w) ==
    IF w = "A"
    THEN {Generated(Text(10 + i), 500, c, c, c) : i \in 1..2, c \in {0, 3, 12}}
         \cup {Raised("Exception"), Raised("RateLimitError")}
    ELSE {Generated(Text(20 + i), 520, c, 0, c) : i \in 1..2, c \in {0, 6}}
         \cup {Raised("APIConnectionError"), Raised("RateLimitError"),
               Raised("APIStatusError"), Raised("Exception")}

NoBraces == LLMResponse(TRUE, -1, -1, FALSE, EmptyDict)
JsonResponse(data) == LLMResponse(TRUE, 0, 9, TRUE, data)

ScoresAll(v) == [f \in Range(ScoreFields) |-> v]

EvaluationData(selected, passes, revision, da, db) ==
    [draft_a |-> da, draft_b |-> db, selected_draft |-> selected,
     passes_threshold |-> passes, revision_needed |-> revision]

\* evaluator answers of the workflow specification
EvaluatorAnswers ==
    {LLMAnswer("RuntimeError", NoLLMResponse),
     LLMAnswer(None, NoBraces)}
    \cup {LLMAnswer(None, JsonResponse(d)) : d \in
          {EvaluationData("A", TRUE, <<>>, DraftData(ScoresAll(50), 90),
                          DraftData(DefaultScores, 55)),
           EvaluationData("B", TRUE, <<>>, DraftData(ScoresAll(50), 50),
                          DraftData(ScoresAll(90), 90)),
           EvaluationData("A", FALSE, <<"A", "B">>, DraftData(ScoresAll(60), 60),
                          DraftData(ScoresAll(50), 50)),
           EvaluationData("B", FALSE, <<"A">>, DraftData(ScoresAll(50), 50),
                          DraftData(ScoresAll(60), 60)),
           EvaluationData("A", FALSE, <<>>, DraftData(ScoresAll(60), 60),
                          DraftData(ScoresAll(50), 50)),
           EvaluationData("A", TRUE, <<>>,
                          [scores |-> ScoresAll(50), overall_score |-> 50,
                           statistics_count |-> -20],
                          DraftData(ScoresAll(50), 50))}}

\* evaluator answers of the evaluator specification
JudgeAnswers ==
    {LLMAnswer("RuntimeError", NoLLMResponse),
     LLMAnswer(None, NoLLMResponse),
     LLMAnswer(None, NoBraces),
     LLMAnswer(None, LLMResponse(TRUE, 5, 2, FALSE, EmptyDict)),
     LLMAnswer(None, LLMResponse(TRUE, 0, 9, FALSE, EmptyDict)),
     LLMAnswer(None, JsonResponse(EmptyDict)),
     LLMAnswer(None, JsonResponse(
        EvaluationData("A", TRUE, <<>>, DraftData(ScoresAll(150), 90),
                       DraftData(ScoresAll(50), 50)))),
     LLMAnswer(None, JsonResponse(
        EvaluationData("A", TRUE, <<>>,
                       [scores |-> ScoresAll(50), overall_score |-> 50,
                        statistics_count |-> -20],
                       DraftData(ScoresAll(50), 50))))}
    \cup {LLMAnswer(None, JsonResponse(
             EvaluationData(sel, p, <<>>, DraftData(ScoresAll(va), oa),
                            DraftData(DefaultScores, ob)))) :
            sel \in {"A", "B"}, p \in BOOLEAN, va \in {0, 50, 100},
            oa \in {0, 50, 79, 80}, ob \in {55, 85}}

EEATData(signals, score) ==
    [eeat_analysis |->
        [experience_signals |-> signals, expertise_signals |-> signals,
         authority_signals |-> signals, trust_signals |-> signals,
         overall_eeat_score |-> score]]

\* commentary answers of the workflow specification
CommentaryAnswers ==
    {LLMAnswer("RuntimeError", NoLLMResponse),
     LLMAnswer(None, JsonResponse(EEATData(<<1, 2>>, 3))),
     LLMAnswer(None, JsonResponse(EEATData(<<1, 2>>, 85)))}

-----------------------------------------------------------------------------
(* The specification *)

NoResponse == ContentGenerationResponse(NoResult, DefaultEEAT)

\* no entry of the job storage
NoJob == Job(None, NoResponse, None)

\* a request has arrived and nothing has run yet
\* URLs handed to one harvest_urls call, at most
MaxUrls == 6
\* jobs created in one run of the service, at most
MaxJobsCreated == 4
\* JobDatabase.max_jobs; get_job_database passes 50, scaled down here
max_jobs == 2

\* no harvest_urls call has been made yet: no harvester, no semaphore, no
\* task (a task is "waiting" for the semaphore, "fetching" or "done")
IdleHarvester ==
    [state |-> "idle", max_concurrent |-> 0, semaphore |-> 0,
     task |-> <<>>, fetched |-> <<>>, results |-> <<>>, harvested |-> <<>>,
     raised |-> FALSE]

\* the jobs table after _init_schema: no row; clock is the service's UTC
\* clock and view[j] what the code that runs job j was last told about it
JobIds == 1..MaxJobsCreated
EmptyDatabase ==
    [rows |-> <<>>, clock |-> 0, view |-> [j \in JobIds |-> "none"]]

\* detect_language has not been called
NoDetection ==
    [words |-> 0, text |-> <<>>, override |-> <<>>,
     result |-> [detected_language |-> <<>>, language_code |-> <<>>,
                 confidence |-> 0, writing_direction |-> "ltr"]]

InitState ==
    /\ pc = "received"
    /\ job = NoJob
    /\ trace = "pending"
    /\ error = None
    /\ response = NoResponse
    /\ caller = "initial"
    /\ rs = IdleResearch
    /\ px = IdlePx
    /\ research_brief = EmptyBrief
    /\ current_research_brief = EmptyBrief
    /\ research_iteration = 0
    /\ eeat_gaps = <<>>
    /\ site = "initial"
    /\ handed = EmptyBrief
    /\ tasks = IdleTasks
    /\ draft_a = NoDraft
    /\ draft_b = NoDraft
    /\ iteration = 0
    /\ evaluation = NoEvaluation
    /\ commentary = DefaultEEAT
    /\ commentary_answer = NoAnswer
    /\ final_result = NoResult
    /\ eval_answer = NoAnswer
    /\ evaluated = <<NoDraft, NoDraft>>
    /\ eval_calls = 0
    /\ eval_passes = 0
    /\ harvester = IdleHarvester
    /\ database = EmptyDatabase
    /\ detection = NoDetection

Init ==
    /\ settings \in SettingsSet
    /\ runtime \in RuntimeSet
    /\ request \in Requests
    /\ endpoint = "async"
    /\ InitState

Next ==
    \/ GenerateContentAsync
    \/ RunGeneration
    \/ DetectLanguage
    \/ \E out \in AgentOutputs : RunResearchAgent(out)
    \/ PerplexityNoKey
    \/ \E o \in PerplexityOutcomes : PerplexityAttempt(o)
    \/ \E found \in StatisticsFound : SearchStatistics(found)
    \/ FilterVerified
    \/ RetryLoop
    \/ RetryStatistics
    \/ ApplyVerified
    \/ StartDrafts
    \/ \E w \in {"A", "B"} : \E g \in WriterAnswers(w) : WriterReturns(w, g)
    \/ GatherDrafts
    \/ EnterEvaluationLoop
    \/ InnerLoop
    \/ \E r \in EvaluatorAnswers : Evaluate(r)
    \/ CheckThreshold
    \/ \E r \in CommentaryAnswers : SelectAndComment(r)
    \/ EEATCheck
    \/ MergeResearch
    \/ FormatContent
    \/ BuildResponse
    \/ CompleteJob
    \/ FailJob

Spec == Init /\ [][Next]_vars


-----------------------------------------------------------------------------
(* Research specification: every research report and every search outcome, *)
(* with one answer of each other service so that passes follow each other  *)

PlainAnswers(w) ==
    IF w = "A" THEN {Generated(Text(11), 500, 3, 2, 1)}
    ELSE {Generated(Text(21), 520, 6, 0, 0)}

PassingAnswers ==
    {LLMAnswer(None, JsonResponse(
        EvaluationData("A", TRUE, <<>>, DraftData(ScoresAll(85), 85),
                       DraftData(ScoresAll(50), 50))))}

WeakCommentaries == {LLMAnswer(None, JsonResponse(EEATData(<<1, 2>>, 3)))}

InitResearch ==
    /\ Init
    /\ runtime.asyncio_coroutine
    /\ ~runtime.writer_b_down

NextResearch ==
    \/ GenerateContentAsync
    \/ RunGeneration
    \/ DetectLanguage
    \/ \E out \in ResearchOutputs : RunResearchAgent(out)
    \/ PerplexityNoKey
    \/ \E o \in SearchOutcomes : PerplexityAttempt(o)
    \/ \E found \in StatisticsFound : SearchStatistics(found)
    \/ FilterVerified
    \/ RetryLoop
    \/ RetryStatistics
    \/ ApplyVerified
    \/ StartDrafts
    \/ \E w \in {"A", "B"} : \E g \in PlainAnswers(w) : WriterReturns(w, g)
    \/ GatherDrafts
    \/ EnterEvaluationLoop
    \/ InnerLoop
    \/ \E r \in PassingAnswers : Evaluate(r)
    \/ CheckThreshold
    \/ \E r \in WeakCommentaries : SelectAndComment(r)
    \/ EEATCheck
    \/ MergeResearch
    \/ FormatContent
    \/ BuildResponse
    \/ CompleteJob

SpecResearch == InitResearch /\ [][NextResearch]_vars


-----------------------------------------------------------------------------
(* Drafts specification: every writer backend answer, few other answers *)

PlainOutputs == {AgentOutput(None, TRUE, Doc(2, 1, 1, 1, 0))}

PlainOutcomes == {[failure |-> None, matched |-> Matched(1)]}

ReviewAnswers ==
    {LLMAnswer("RuntimeError", NoLLMResponse)}
    \cup {LLMAnswer(None, JsonResponse(d)) : d \in
          {EvaluationData("B", TRUE, <<>>, DraftData(ScoresAll(50), 50),
                          DraftData(ScoresAll(90), 90)),
           EvaluationData("A", FALSE, <<"A", "B">>, DraftData(ScoresAll(60), 60),
                          DraftData(ScoresAll(50), 50)),
           EvaluationData("A", FALSE, <<"B">>, DraftData(ScoresAll(60), 60),
                          DraftData(ScoresAll(50), 50))}}

StrongCommentaries == {LLMAnswer(None, JsonResponse(EEATData(<<1, 2>>, 8)))}

NextDrafts ==
    \/ GenerateContentAsync
    \/ RunGeneration
    \/ DetectLanguage
    \/ \E out \in PlainOutputs : RunResearchAgent(out)
    \/ PerplexityNoKey
    \/ \E o \in PlainOutcomes : PerplexityAttempt(o)
    \/ \E found \in StatisticsFound : SearchStatistics(found)
    \/ FilterVerified
    \/ RetryLoop
    \/ RetryStatistics
    \/ ApplyVerified
    \/ StartDrafts
    \/ \E w \in {"A", "B"} : \E g \in BackendAnswers(w) : WriterReturns(w, g)
    \/ GatherDrafts
    \/ EnterEvaluationLoop
    \/ InnerLoop
    \/ \E r \in ReviewAnswers : Evaluate(r)
    \/ CheckThreshold
    \/ \E r \in StrongCommentaries : SelectAndComment(r)
    \/ EEATCheck
    \/ FormatContent
    \/ BuildResponse
    \/ CompleteJob
    \/ FailJob

SpecDrafts == Init /\ [][NextDrafts]_vars

-----------------------------------------------------------------------------
(* Evaluator specification: every evaluator and commentary answer *)

AllCommentaries ==
    {LLMAnswer("RuntimeError", NoLLMResponse),
     LLMAnswer(None, NoLLMResponse),
     LLMAnswer(None, NoBraces),
     LLMAnswer(None, JsonResponse(EmptyDict))}
    \cup {LLMAnswer(None, JsonResponse(EEATData(<<1, 2>>, sc))) :
            sc \in {-3, 0, 6, 7, 10, 11, 85, 100, 250}}

InitEvaluator ==
    /\ Init
    /\ runtime.asyncio_coroutine
    /\ runtime.perplexity_api_key
    /\ ~runtime.writer_b_down

NextEvaluator ==
    \/ GenerateContentAsync
    \/ RunGeneration
    \/ DetectLanguage
    \/ \E out \in PlainOutputs : RunResearchAgent(out)
    \/ \E o \in PlainOutcomes : PerplexityAttempt(o)
    \/ \E found \in StatisticsFound : SearchStatistics(found)
    \/ FilterVerified
    \/ RetryLoop
    \/ RetryStatistics
    \/ ApplyVerified
    \/ StartDrafts
    \/ \E w \in {"A", "B"} : \E g \in PlainAnswers(w) : WriterReturns(w, g)
    \/ GatherDrafts
    \/ EnterEvaluationLoop
    \/ InnerLoop
    \/ \E r \in JudgeAnswers : Evaluate(r)
    \/ CheckThreshold
    \/ \E r \in AllCommentaries : SelectAndComment(r)
    \/ EEATCheck
    \/ MergeResearch
    \/ FormatContent
    \/ BuildResponse
    \/ CompleteJob
    \/ FailJob

SpecEvaluator == InitEvaluator /\ [][NextEvaluator]_vars


-----------------------------------------------------------------------------
(* Single-round scenario: max_iterations = 1 and eeat_threshold = 0 (a value *)
(* below the range the settings validator accepts, reachable by assigning   *)
(* the attribute), every answer of the evaluator and of the commentary      *)

ScenarioSettings ==
    [max_iterations : {1},
     max_research_iterations : 1..MaxResearchBound,
     eeat_threshold : {0},
     quality_threshold : {80},
     retry_max_attempts : {3},
     retry_min_wait_seconds : {2},
     retry_max_wait_seconds : {30}]

InitScenario ==
    /\ settings \in ScenarioSettings
    /\ runtime \in RuntimeSet
    /\ request \in Requests
    /\ endpoint = "async"
    /\ InitState

NextScenario ==
    \/ GenerateContentAsync
    \/ RunGeneration
    \/ DetectLanguage
    \/ \E out \in AgentOutputs : RunResearchAgent(out)
    \/ PerplexityNoKey
    \/ \E o \in PerplexityOutcomes : PerplexityAttempt(o)
    \/ \E found \in StatisticsFound : SearchStatistics(found)
    \/ FilterVerified
    \/ RetryLoop
    \/ RetryStatistics
    \/ ApplyVerified
    \/ StartDrafts
    \/ \E w \in {"A", "B"} : \E g \in WriterAnswers(w) : WriterReturns(w, g)
    \/ GatherDrafts
    \/ EnterEvaluationLoop
    \/ InnerLoop
    \/ \E r \in EvaluatorAnswers : Evaluate(r)
    \/ CheckThreshold
    \/ \E r \in AllCommentaries : SelectAndComment(r)
    \/ EEATCheck
    \/ FormatContent
    \/ BuildResponse
    \/ CompleteJob
    \/ FailJob

SpecScenario == InitScenario /\ [][NextScenario]_vars

-----------------------------------------------------------------------------
(* API specification: both POST routes, every request body, one research    *)
(* report and search outcome                                                *)

InitApi ==
    /\ settings \in SettingsSet
    /\ runtime \in RuntimeSet
    /\ request \in Requests
    /\ endpoint \in {"sync", "async"}
    /\ InitState

NextApi ==
    \/ GenerateContentAsync
    \/ GenerateContent
    \/ RunGeneration
    \/ DetectLanguage
    \/ \E out \in PlainOutputs : RunResearchAgent(out)
    \/ PerplexityNoKey
    \/ \E o \in PlainOutcomes : PerplexityAttempt(o)
    \/ \E found \in StatisticsFound : SearchStatistics(found)
    \/ FilterVerified
    \/ RetryLoop
    \/ RetryStatistics
    \/ ApplyVerified
    \/ StartDrafts
    \/ \E w \in {"A", "B"} : \E g \in WriterAnswers(w) : WriterReturns(w, g)
    \/ GatherDrafts
    \/ EnterEvaluationLoop
    \/ InnerLoop
    \/ \E r \in EvaluatorAnswers : Evaluate(r)
    \/ CheckThreshold
    \/ \E r \in CommentaryAnswers : SelectAndComment(r)
    \/ EEATCheck
    \/ MergeResearch
    \/ FormatContent
    \/ BuildResponse
    \/ GenerateContentEnd
    \/ CompleteJob
    \/ FailJob

SpecApi == InitApi /\ [][NextApi]_vars

-----------------------------------------------------------------------------
(* Loop bounds *)

\* C1: one run of generate_content enters the inner evaluation loop at most
\* max_research_iterations + 1 times, each pass turns the loop at most
\* max_iterations times with one evaluate_drafts call per turn, and the run
\* issues at most (max_research_iterations + 1) * max_iterations evaluation
\* calls; both loop counters stay within their bounds, so both loops end.
C1_LoopBound ==
    /\ eval_passes <= settings.max_research_iterations + 1
    /\ research_iteration <= settings.max_research_iterations
    /\ iteration <= settings.max_iterations
    /\ eval_calls <= eval_passes * settings.max_iterations
    /\ eval_calls <=
         (settings.max_research_iterations + 1) * settings.max_iterations

\* a finished run that used every pass and every evaluation the bound allows
C1_BoundReached ==
    /\ pc = "done"
    /\ settings.max_iterations > 1
    /\ eval_passes = settings.max_research_iterations + 1
    /\ eval_calls =
         (settings.max_research_iterations + 1) * settings.max_iterations


-----------------------------------------------------------------------------
(* Outcome of a job *)

\* every field of the response carries a value of the run
Populated(r) ==
    /\ r.selected_draft \in {"A", "B"}
    /\ r.content # EmptyText
    /\ r.evaluation_score \in 0..100
    /\ r.evaluation_iterations >= 1
    /\ r.statistics_count >= 0
    /\ r.citations_count >= 0
    /\ r.quotations_count >= 0
    /\ r.eeat_score \in 0..10

\* C2: a run of generate_content either returns a fully populated response,
\* with which the job is completed, or raises, and then the job is marked
\* failed with the captured error; once a phase has raised no response is
\* returned, and a failed job never carries a result.
C2_ResponseOrFailure ==
    /\ pc = "returned" => error = None /\ Populated(response)
    /\ error # None => response = NoResponse /\ job.status # "completed"
    /\ job.status = "completed" =>
         /\ job.result = response
         /\ Populated(job.result)
         /\ job.error = None
    /\ job.status = "failed" =>
         /\ job.result = NoResponse
         /\ job.error = error
         /\ error # None
    /\ pc = "done" => job.status \in {"completed", "failed"}

\* a job failed by a phase that raised after the evaluation had returned
C2_FailedJob ==
    /\ job.status = "failed"
    /\ job.error = "ValidationError"
    /\ final_result.selected \in {"A", "B"}
    /\ job.result = NoResponse


-----------------------------------------------------------------------------
(* Research briefs *)

AllVerified(b) ==
    /\ \A i \in 1..Len(b.statistics) : b.statistics[i].verified
    /\ \A i \in 1..Len(b.quotations) : b.quotations[i].verified

\* C3: every statistic and every quotation of a brief returned by
\* conduct_research (normal path, after the top-up retries, or the error
\* fallback), of the running brief after any number of merges, and of every
\* brief handed to the writers, is verified.
C3_VerifiedOnly ==
    /\ AllVerified(research_brief)
    /\ AllVerified(current_research_brief)
    /\ AllVerified(handed)

\* the writers hold a merged brief with quotations of both research calls,
\* and the last call discarded unverified statistics and quotations
C3_MergedVerifiedHanded ==
    /\ pc = "gather"
    /\ site = "regenerate"
    /\ Len(handed.quotations) > max_quotes
    /\ research_brief.verification_stats.discarded_stats > 0
    /\ research_brief.verification_stats.discarded_quotes > 0

WithinCaps(b) ==
    /\ Len(b.key_facts) <= 15
    /\ Len(b.statistics) <= 8
    /\ Len(b.quotations) <= 5
    /\ Len(b.citations) <= 10

\* C4: every brief returned by conduct_research and every brief produced by
\* _merge_research_briefs holds at most 15 key facts, 8 statistics,
\* 5 quotations and 10 citations, before and after any merge.
C4_Caps ==
    /\ WithinCaps(research_brief)
    /\ WithinCaps(current_research_brief)
    /\ WithinCaps(handed)

\* a merge of two full briefs whose union exceeds the caps, cut back to them
C4_MergedAtCaps ==
    /\ pc = "regenerate"
    /\ Len(research_brief.key_facts) = 15
    /\ Len(research_brief.citations) = 10
    /\ Len(current_research_brief.key_facts) = 15
    /\ Len(current_research_brief.quotations) = 5
    /\ Len(current_research_brief.citations) = 10
    /\ \E i \in 1..15 : research_brief.key_facts[i]
                          \notin Range(current_research_brief.key_facts)


-----------------------------------------------------------------------------
(* Evaluation results *)

WeightedOverall(d) == 100 * d.overall_score = WeightedOverall100(d.scores)

\* C5: in every EvaluationResult returned by evaluate_drafts each draft's
\* overall_score, the value behind best_score and the response's
\* evaluation_score, equals the weighted sum of that draft's twelve
\* sub-scores, whatever total the LLM response states.
C5_OverallIsWeightedSum ==
    /\ pc = "check" =>
         WeightedOverall(evaluation.draft_a) /\ WeightedOverall(evaluation.draft_b)
    /\ job.status = "completed" =>
         100 * job.result.evaluation_score =
            WeightedOverall100(IF job.result.selected_draft = "A"
                               THEN evaluation.draft_a.scores
                               ELSE evaluation.draft_b.scores)

\* the response cannot be parsed as the expected JSON object: no braces, or
\* malformed JSON between the first "{" and the last "}"
Unparseable(resp) ==
    /\ resp.present
    /\ \/ resp.first_open < 0
       \/ resp.last_close + 1 <= resp.first_open
       \/ ~resp.valid_json

\* C8: whenever the evaluator's LLM response cannot be parsed as the expected
\* JSON object, evaluate_drafts returns the default evaluation computed from
\* the heuristic counts on each draft (bonus per element, capped at 85, the
\* higher-scoring draft selected); evaluate_drafts never raises, so the loop
\* proceeds to its threshold check.
C8_ParseFailureHeuristicDefault ==
    /\ pc = "check" /\ eval_answer.exc = None /\ Unparseable(eval_answer.response)
         => evaluation = DefaultEvaluation(draft_a, draft_b)
    /\ pc = "check" => error = None /\ evaluation.selected_draft \in {"A", "B"}

-----------------------------------------------------------------------------
(* Draft generation *)

Placeholder(d, id, exc) ==
    /\ d.draft_id = id
    /\ d.content = ErrorContent(exc)
    /\ d.word_count = 0
    /\ d.statistics_count = 0
    /\ d.citations_count = 0
    /\ d.quotations_count = 0

\* C7: when the backend of writer B raises on every call, a completed job
\* has selected draft A, its content is draft A's text and never B's error
\* placeholder, and draft B is a placeholder with zero counts.
C7_WriterBDownSelectsA ==
    runtime.writer_b_down /\ job.status = "completed" =>
        /\ job.result.selected_draft = "A"
        /\ job.result.content = draft_a.content
        /\ job.result.content # draft_b.content
        /\ \E exc \in {"APIConnectionError", "RateLimitError",
                       "APIStatusError", "Exception"} :
              Placeholder(draft_b, "B", exc)


\* drafts of a round in flight or just gathered
C6_Round ==
    /\ pc = "gather" /\ site \in {"initial", "regenerate"} =>
         \A w \in {"A", "B"} : tasks[w].state \in {"running", "done"}
    /\ \A w \in {"A", "B"} :
         tasks[w].state = "done" =>
            /\ tasks[w].result.draft_id = w
            /\ tasks[w].exc # None =>
                  Placeholder(tasks[w].result, w, tasks[w].exc)
    /\ pc \in {"outer_loop", "inner_loop", "evaluate", "check", "select"} =>
         draft_a.draft_id = "A" /\ draft_b.draft_id = "B"

\* one step of a round
C6_Step ==
    /\ \A w \in {"A", "B"} :
         /\ tasks[w].state = "running" => tasks'[w].state \in {"running", "done"}
         /\ tasks[w].state = "done" /\ pc' = "gather" => tasks'[w] = tasks[w]
    /\ pc = "gather" /\ pc' # "gather" =>
         /\ \A w \in {"A", "B"} : tasks[w].state = "done"
         /\ draft_a' = tasks["A"].result
         /\ draft_b' = tasks["B"].result
         /\ pc' \in {"outer_loop", "inner_loop"}

\* C6: in every draft-generation round both writer calls are started
\* together and both are awaited; an error in one writer neither cancels
\* the other nor discards its result, and the round yields one draft
\* labelled A and one labelled B, a failed writer contributing a
\* placeholder that carries the error text with word count and the three
\* heuristic counts equal to zero.
C6_BothDraftsAlways == []C6_Round /\ [][C6_Step]_vars

\* a round in which writer B failed and writer A's draft was kept
C6_PlaceholderBesideDraft ==
    /\ pc = "outer_loop"
    /\ Placeholder(draft_b, "B", "APIStatusError")
    /\ draft_a.content = Text(11)
    /\ draft_a.statistics_count = 10

-----------------------------------------------------------------------------
(* Failures of the research call *)

ResearchSteps ==
    {"research", "px_quotes", "px_stats", "filter", "retry_loop",
     "retry_quotes", "retry_stats", "apply"}

MinimalBrief(b) ==
    /\ Len(b.key_facts) = 1
    /\ b.statistics = <<>>
    /\ b.quotations = <<>>
    /\ b.citations = <<>>

C9_Step ==
    /\ pc \in ResearchSteps =>
         /\ pc' \in ResearchSteps \cup {"generate", "merge"}
         /\ error' = None
         /\ job'.status = "processing"
    /\ \A out \in ResearchOutputs :
         (out.exc # None \/ ~out.has_output) /\ RunResearchAgent(out) =>
            /\ MinimalBrief(research_brief')
            /\ pc' = IF caller = "initial" THEN "generate" ELSE "merge"
    /\ pc = "generate" /\ pc' # "generate" =>
         pc' = "gather" /\ handed' = research_brief

\* C9: conduct_research never raises: when the research generation call or
\* the parser fails it returns a minimal placeholder brief (exactly one key
\* fact, no statistics, quotations or citations), and the orchestrator goes
\* on to draft generation with that brief instead of failing the job.
C9_ResearchNeverRaises == [][C9_Step]_vars

\* the writers were handed the placeholder brief of a failed first research
C9_PlaceholderHanded ==
    /\ pc = "gather"
    /\ site = "initial"
    /\ handed = ErrorBrief(request.reference_urls)
    /\ job.status = "processing"

-----------------------------------------------------------------------------
(* Retries of the retrieval calls *)

\* C10 as stated: every transient failure of an external call (timeout,
\* rate limit, connection error) is retried until the attempt bound and
\* only then degrades to an empty result.
C10_EveryTransientRetried ==
    px.returned /\ px.failure \in TransientFailures =>
        /\ px.attempt = settings.retry_max_attempts
        /\ px.quotes = <<>>

RECURSIVE TotalWait(_)
TotalWait(k) == IF k <= 0 THEN 0 ELSE WaitExponential(k) + TotalWait(k - 1)

\* C10 amended: a quote search makes at most retry_max_attempts attempts and
\* sleeps the exponential backoff before each repeated attempt; only
\* timeouts and connection errors are repeated, and a call whose last
\* attempt ended with one of them has used every attempt; a rate limit or
\* any other failure ends the call at once; whatever the failure, the call
\* returns an empty list and the research goes on.
C10_TimeoutsAndConnectErrorsRetried ==
    /\ px.attempt <= settings.retry_max_attempts
    /\ px.waited = TotalWait(IF px.returned THEN px.attempt - 1
                             ELSE px.attempt)
    /\ px.retried \subseteq {"TimeoutException", "ConnectError"}
    /\ px.returned /\ px.failure \in {"TimeoutException", "ConnectError"} =>
         px.attempt = settings.retry_max_attempts /\ px.waited > 0
    /\ px.returned /\ px.failure # None => px.quotes = <<>>
    /\ px.returned /\ pc \in ResearchSteps => error = None

\* a call that repeated a timeout and a connection error, was then rate
\* limited, and returned an empty list to the research that goes on
C10_RateLimitedAfterRetries ==
    /\ pc = "px_stats"
    /\ px.returned
    /\ px.failure = "RateLimit"
    /\ px.retried = {"TimeoutException", "ConnectError"}
    /\ px.attempt = settings.retry_max_attempts
    /\ px.quotes = <<>>

-----------------------------------------------------------------------------
(* Verification metrics of a research call *)

\* the return of conduct_research on its normal path
C11_Step ==
    pc = "apply" /\ rs.retrieved = 0 =>
        /\ research_brief'.verification_stats.present
        /\ research_brief'.verification_stats.retry_attempts = 2
        /\ research_brief'.verification_stats.verified_stats = 0
        /\ research_brief'.verification_stats.verified_quotes = 0
        /\ research_brief'.statistics = <<>>
        /\ research_brief'.quotations = <<>>
        /\ pc' = IF caller = "initial" THEN "generate" ELSE "merge"
        /\ error' = None

\* C11: when the retrieval service returns no verified quote and no verified
\* statistic on any call of a research, retries included, conduct_research
\* returns a brief whose verification_stats record retry_attempts = 2,
\* verified_stats = 0 and verified_quotes = 0, and the run goes on to draft
\* generation with that brief.
C11_EmptyRetrievalTwoRetries ==
    /\ [][C11_Step]_vars
    /\ [](pc = "apply" /\ rs.retrieved = 0 =>
             rs.retry = max_retries /\ rs.retries_performed = max_retries)
    /\ [](pc = "generate" /\ research_brief.verification_stats.present
          /\ research_brief.verification_stats.verified_quotes = 0
            => research_brief.verification_stats.retry_attempts = 2)

\* the writers were handed the brief of a first research whose searches and
\* retries all came back empty although the service answered
C11_EmptyBriefHanded ==
    /\ pc = "gather"
    /\ site = "initial"
    /\ runtime.perplexity_api_key
    /\ handed.verification_stats.present
    /\ handed.verification_stats.retry_attempts = 2
    /\ handed.verification_stats.verified_stats = 0
    /\ handed.verification_stats.verified_quotes = 0
    /\ handed.verification_stats.discarded_quotes > 0

-----------------------------------------------------------------------------
(* Single-round scenario *)

\* positions of a run after the outer loop has been left
AfterOuterLoop == {"package", "insights", "returned"}

-----------------------------------------------------------------------------
(* Merge specification: _merge_research_briefs applied to pairs of briefs   *)
(* drawn from a set that holds empty, small, full and over-long briefs,     *)
(* briefs with repeated items and URL lists with repeated URLs              *)

\* a brief with nf facts, ns statistics, nq quotations and nc citations
\* numbered from base + 1
BriefOf(nf, ns, nq, nc, base, urls) ==
    ResearchBrief([i \in 1..nf |-> Text(base + i)],
                  [i \in 1..ns |->
                      StatisticItem(Text(base + i), Text(base + i), TRUE)],
                  [i \in 1..nq |-> QuotationItem(Text(base + i), TRUE)],
                  [i \in 1..nc |->
                      CitationItem(Text(base + i), Text(base + i))],
                  urls)

MergeInputs ==
    {BriefOf(n[1], n[2], n[3], n[4], base, urls) :
        n \in {<<0, 0, 0, 0>>, <<2, 1, 1, 1>>, <<15, 8, 5, 10>>,
               <<17, 9, 6, 11>>},
        base \in {0, 1},
        urls \in {<<>>, <<1, 2>>, <<2, 3, 2>>}}
    \cup {ResearchBrief(<<Text(1), Text(1)>>,
                        <<StatisticItem(Text(1), Text(1), TRUE),
                          StatisticItem(Text(1), Text(2), TRUE)>>,
                        <<QuotationItem(Text(1), TRUE),
                          QuotationItem(Text(1), TRUE)>>,
                        <<CitationItem(Text(1), Text(1)),
                          CitationItem(Text(1), Text(2))>>,
                        <<1, 1>>)}

\* a run that has just received the brief of a gap-focused research: the
\* writers hold the running brief, the new brief is about to be merged
InitMerge ==
    /\ settings \in SettingsSet
    /\ runtime \in RuntimeSet
    /\ request \in {r \in Requests : ValidRequest(r)}
    /\ endpoint = "async"
    /\ pc = "merge"
    /\ job = Job("processing", NoResponse, None)
    /\ trace = "pending"
    /\ error = None
    /\ response = NoResponse
    /\ caller = "focused"
    /\ rs = IdleResearch
    /\ px = IdlePx
    /\ research_brief \in MergeInputs
    /\ current_research_brief \in MergeInputs
    /\ research_iteration = 1
    /\ eeat_gaps = Dimensions
    /\ site = "initial"
    /\ handed = current_research_brief
    /\ tasks = IdleTasks
    /\ draft_a = NoDraft
    /\ draft_b = NoDraft
    /\ iteration = 0
    /\ evaluation = NoEvaluation
    /\ commentary = DefaultEEAT
    /\ commentary_answer = NoAnswer
    /\ final_result = NoResult
    /\ eval_answer = NoAnswer
    /\ evaluated = <<NoDraft, NoDraft>>
    /\ eval_calls = 1
    /\ eval_passes = 1
    /\ harvester = IdleHarvester
    /\ database = EmptyDatabase
    /\ detection = NoDetection

NextMerge == MergeResearch

SpecMerge == InitMerge /\ [][NextMerge]_vars

\* the merge of the running brief with an identical brief
C13_Step ==
    pc = "merge" /\ research_brief = current_research_brief =>
        /\ current_research_brief'.key_facts =
              Take(current_research_brief.key_facts, 15)
        /\ current_research_brief'.statistics =
              Take(current_research_brief.statistics, 8)
        /\ current_research_brief'.quotations =
              Take(current_research_brief.quotations, 5)
        /\ current_research_brief'.citations =
              Take(current_research_brief.citations, 10)
        /\ Range(current_research_brief'.source_urls) =
              Range(current_research_brief.source_urls)

\* C13: merging a brief with itself yields a brief whose key facts,
\* statistics, quotations and citations are the original's lists cut to the
\* caps, with nothing appended twice, and whose source URLs are the same
\* set as the original's.
C13_MergeIdempotent == [][C13_Step]_vars

\* an over-long brief with a repeated URL was merged with itself: the result
\* is the brief cut to the caps, the URL list holds each URL once
C13_MergedWithItself ==
    /\ pc = "regenerate"
    /\ handed = research_brief
    /\ Len(handed.key_facts) = 17
    /\ current_research_brief.key_facts = Take(handed.key_facts, 15)
    /\ Len(current_research_brief.quotations) = 5
    /\ Len(handed.source_urls) = 3
    /\ Len(current_research_brief.source_urls) = 2

-----------------------------------------------------------------------------
(* E-E-A-T score of a commentary *)

\* the commentary call returned a response from which a commentary is built
BuiltFromResponse(r) == r.exc = None /\ r.response.present

\* the raw score that response states (5 when it states none)
RawEEATScore(r) ==
    Get(Get(ParseCommentaryResponse(r.response), "eeat_analysis", EmptyDict),
        "overall_eeat_score", 5)

Clamped(x) == IF x < 0 THEN 0 ELSE IF x > 10 THEN 10 ELSE x

\* C14: the overall E-E-A-T score of every commentary built from an LLM
\* response is an integer in [0,10]: a raw value above 10 is divided by 10,
\* floored, then clamped to [0,10]; a raw value of at most 10 is clamped to
\* [0,10] and otherwise unchanged; 85 gives 8, 7 gives 7 and -3 gives 0.
C14_EEATNormalized ==
    /\ commentary.overall_eeat_score \in 0..10
    /\ pc = "eeat_check" /\ BuiltFromResponse(commentary_answer) =>
         LET raw == RawEEATScore(commentary_answer)
             score == commentary.overall_eeat_score
         IN /\ raw > 10 => score = Clamped(raw \div 10)
            /\ raw <= 10 => score = Clamped(raw)
            /\ raw = 85 => score = 8
            /\ raw = 7 => score = 7
            /\ raw = -3 => score = 0
            /\ raw = 250 => score = 10

\* a commentary whose response stated 85 on the 0-100 scale, scored 8
C14_ScaledDown ==
    /\ pc = "eeat_check"
    /\ BuiltFromResponse(commentary_answer)
    /\ RawEEATScore(commentary_answer) = 85
    /\ commentary.overall_eeat_score = 8

-----------------------------------------------------------------------------
(* Request validation and job status *)

\* nothing of a run has happened: generate_content was not invoked, no job
\* is registered, no external service was called
NothingStarted ==
    /\ pc \in {"received", "rejected"}
    /\ job = NoJob
    /\ trace = "pending"
    /\ rs = IdleResearch
    /\ px = IdlePx
    /\ tasks = IdleTasks
    /\ eval_calls = 0
    /\ commentary_answer = NoAnswer
    /\ response = NoResponse

\* C15: a request with an empty client_name or a target_question shorter
\* than 10 characters is rejected with a validation error before the
\* orchestrator is started: generate_content is never invoked for it, no job
\* is registered and no external call is made; a request is refused without
\* the orchestrator running only for a validation error, and every other
\* failure the caller sees comes from a run of the orchestrator.
C15_InvalidRequestRejected ==
    /\ request.client_name = 0 \/ request.target_question < 10 =>
         NothingStarted
    /\ pc = "rejected" => ~ValidRequest(request) /\ NothingStarted
    /\ ValidRequest(request) => pc # "rejected"
    /\ pc = "sync_failed" \/ job.status = "failed" =>
         trace = "failed" /\ error # None

\* a request with a 9-character question, answered 422 on the synchronous
\* route with nothing started
C15_ShortQuestionRejected ==
    /\ pc = "rejected"
    /\ endpoint = "sync"
    /\ request.client_name > 0
    /\ request.target_question = 9
    /\ NothingStarted

\* one step of a job's status
C16_Step ==
    \/ job'.status = job.status
    \/ /\ job.status = None /\ job'.status = "pending"
       /\ pc = "received" /\ pc' = "pending"
    \/ job.status = "pending" /\ job'.status = "processing"
    \/ job.status = "processing" /\ job'.status \in {"completed", "failed"}

\* what a job carries in each status
C16_Carried ==
    /\ pc = "pending" <=> job.status = "pending"
    /\ endpoint = "async" /\ pc \notin {"received", "rejected"} =>
         job.status \in {"pending", "processing", "completed", "failed"}
    /\ job.status = "completed" =>
         job.result = response /\ job.result # NoResponse /\ job.error = None
    /\ job.status = "failed" => job.error # None /\ job.error = error
    /\ job.status \in {"completed", "failed"} => pc = "done"

\* C16: every job created by POST /generate/async is registered with status
\* pending before the endpoint returns its job id; afterwards its status
\* only moves pending -> processing -> completed or pending -> processing ->
\* failed; completed and failed are never left; a completed job always
\* carries a result and a failed job always carries an error message.
C16_JobStatusLifecycle == []C16_Carried /\ [][C16_Step]_vars

\* a job that went through processing and failed on the missing
\* asyncio.coroutine, carrying the error
C16_FailedWithError ==
    /\ job.status = "failed"
    /\ job.error = "AttributeError"
    /\ ~runtime.asyncio_coroutine
    /\ pc = "done"

-----------------------------------------------------------------------------
(* Outer loop: E-E-A-T check, gap-focused research, regeneration *)

\* positions of a run once the outer loop has been left
Packaging == {"package", "insights", "returned", "raised", "done"}

\* one step of the outer loop
C17_Step ==
    /\ pc = "eeat_check" =>
         IF commentary.overall_eeat_score < settings.eeat_threshold
            /\ research_iteration < settings.max_research_iterations
         THEN /\ pc' = "research"
              /\ caller' = "focused"
              /\ research_iteration' = research_iteration + 1
         ELSE /\ pc' = "package"
              /\ research_iteration' = research_iteration
    /\ pc = "eeat_check"
       /\ commentary.overall_eeat_score >= settings.eeat_threshold
         => pc' = "package"
    /\ caller = "focused" /\ pc \in ResearchSteps =>
         pc' \in ResearchSteps \cup {"merge"}
    /\ pc = "merge" =>
         /\ pc' = "regenerate"
         /\ \E urls \in CombinedUrls(current_research_brief.source_urls
                                     \o research_brief.source_urls) :
               current_research_brief' =
                   MergeResearchBriefs(current_research_brief, research_brief,
                                       urls)
    /\ pc = "regenerate" =>
         /\ pc' = "gather"
         /\ site' = "regenerate"
         /\ handed' = current_research_brief
         /\ \A w \in {"A", "B"} : tasks'[w].state = "running"
    /\ pc = "gather" /\ site = "regenerate" /\ pc' # "gather" =>
         /\ pc' = "outer_loop"
         /\ draft_a' = tasks["A"].result
         /\ draft_b' = tasks["B"].result
    /\ pc = "outer_loop" => pc' = "inner_loop" /\ eval_passes' = eval_passes + 1
    /\ pc' = "package" => pc = "eeat_check"
    /\ pc \in Packaging =>
         /\ pc' \in Packaging
         /\ UNCHANGED <<research_iteration, current_research_brief, draft_a,
                        draft_b, eval_passes, eval_calls>>

\* each pass after the first follows one round of gap-focused research
C17_Rounds ==
    /\ pc \in Packaging \cup {"eeat_check"} =>
         eval_passes = research_iteration + 1
    /\ pc = "package" =>
         \/ commentary.overall_eeat_score >= settings.eeat_threshold
         \/ research_iteration = settings.max_research_iterations

\* C17: after an inner-loop pass whose commentary E-E-A-T score is below
\* eeat_threshold, and while fewer than max_research_iterations research
\* rounds have been run, the orchestrator runs gap-focused research, replaces
\* the running brief by its merge with the new brief, regenerates both drafts
\* from the merged brief and runs the inner loop again before packaging; when
\* the score is at least eeat_threshold it goes to packaging and runs no
\* further research or regeneration.
C17_FocusedResearchRound == []C17_Rounds /\ [][C17_Step]_vars

\* a run packaged after a research round: its second pass, on drafts
\* regenerated from a merged brief that differs from the new brief, scored
\* at least the threshold
C17_PackagedAfterResearchRound ==
    /\ pc = "package"
    /\ research_iteration = 1
    /\ eval_passes = 2
    /\ commentary.overall_eeat_score >= settings.eeat_threshold
    /\ site = "regenerate"
    /\ handed = current_research_brief
    /\ current_research_brief.key_facts # research_brief.key_facts

-----------------------------------------------------------------------------
(* Inner loop: threshold check and revision *)

\* one step of the inner loop
C18_Step ==
    /\ pc = "check" /\ evaluation.passes_threshold =>
         /\ pc' = "select"
         /\ UNCHANGED <<draft_a, draft_b, tasks, iteration>>
    /\ pc = "check" /\ ~evaluation.passes_threshold =>
         /\ pc' \in {"gather", "inner_loop"}
         /\ error' = None
    /\ pc = "inner_loop" =>
         pc' = IF iteration < settings.max_iterations THEN "evaluate"
               ELSE "select"
    /\ pc = "select" =>
         /\ final_result'.selected = evaluation.selected_draft
         /\ final_result'.draft = IF evaluation.selected_draft = "A"
                                  THEN draft_a ELSE draft_b
         /\ final_result'.iterations = iteration

\* how the inner loop is left
C18_Left ==
    /\ pc = "select" =>
         /\ evaluation # NoEvaluation
         /\ evaluation.passes_threshold \/ iteration = settings.max_iterations
    /\ pc = "gather" /\ site = "revision" =>
         ~evaluation.passes_threshold /\ iteration < settings.max_iterations

\* C18: the inner loop stops at the first round whose evaluation has
\* passes_threshold = true and regenerates nothing after it; if no round
\* passes, it ends after max_iterations rounds and proceeds with the draft
\* selected by the final round's evaluation.
C18_InnerLoopStops == []C18_Left /\ [][C18_Step]_vars

\* the revision round started by a failed, non-final threshold check
C19_Step ==
    /\ pc = "check" /\ ~evaluation.passes_threshold
       /\ iteration < settings.max_iterations =>
         /\ error' = None
         /\ pc' # "raised"
         /\ evaluation.revision_needed # <<>> =>
              /\ pc' = "gather"
              /\ \A w \in {"A", "B"} :
                    IF w \in Range(evaluation.revision_needed)
                    THEN tasks'[w].state = "running"
                    ELSE tasks'[w] =
                           Task("done", IF w = "A" THEN draft_a ELSE draft_b,
                                None)
         /\ evaluation.revision_needed = <<>> =>
              pc' = "inner_loop" /\ UNCHANGED <<draft_a, draft_b>>
    /\ pc = "gather" /\ site = "revision" /\ pc' # "gather" =>
         /\ pc' = "inner_loop"
         /\ "A" \notin Range(evaluation.revision_needed) => draft_a' = draft_a
         /\ "B" \notin Range(evaluation.revision_needed) => draft_b' = draft_b

\* C19: in an inner-loop round that fails the threshold and is not the last
\* round, exactly the drafts listed in revision_needed are regenerated; a
\* draft that is not listed is carried unchanged into the next round, and
\* the round completes without error whether one, both or neither draft is
\* listed.
C19_RevisionOfListedDrafts == [][C19_Step]_vars

-----------------------------------------------------------------------------
(* Threshold flag of an evaluation *)

\* C20: in every EvaluationResult returned by evaluate_drafts,
\* passes_threshold is true if and only if the selected draft's overall
\* score is at least the quality threshold recorded in threshold_value, so
\* the inner loop stops before its last round only when the best draft
\* reaches the threshold.
C20_PassesIffBestReachesThreshold ==
    /\ pc = "check" =>
         /\ evaluation.threshold_value = settings.quality_threshold
         /\ evaluation.passes_threshold <=>
               BestScore(evaluation) >= evaluation.threshold_value
    /\ pc = "select" /\ iteration < settings.max_iterations =>
         BestScore(evaluation) >= settings.quality_threshold

-----------------------------------------------------------------------------
(* Consistency of the packaged result *)

\* the draft a result names
SelectedOf(selected) == IF selected = "A" THEN draft_a ELSE draft_b

\* writers are started on the running brief only, the running brief changes
\* only where both drafts are generated anew, and a draft changes only
\* where an evaluation still follows
C21_Step ==
    /\ \A w \in {"A", "B"} :
          tasks[w].state # "running" /\ tasks'[w].state = "running"
              => handed' = IF pc = "generate" THEN research_brief'
                           ELSE current_research_brief'
    /\ current_research_brief' # current_research_brief
          => \/ pc = "gather" /\ site = "initial"
                 /\ current_research_brief' = handed
             \/ pc' = "regenerate"
    /\ pc = "regenerate"
          => \A w \in {"A", "B"} : tasks'[w].state = "running"
    /\ pc \in AfterOuterLoop
          => UNCHANGED <<draft_a, draft_b, evaluation, final_result,
                         current_research_brief, handed>>

C21_Packaged ==
    pc \in AfterOuterLoop =>
        /\ final_result.selected = evaluation.selected_draft
        /\ final_result.draft = SelectedOf(evaluation.selected_draft)
        /\ final_result.content = SelectedOf(evaluation.selected_draft).content
        /\ evaluated = <<draft_a, draft_b>>
        /\ evaluation = EvaluateDrafts(draft_a, draft_b, eval_answer)
        /\ handed = current_research_brief
        /\ pc = "returned" =>
              response.selected_draft = evaluation.selected_draft

-----------------------------------------------------------------------------
(* Top-up retries of a research call *)

\* verified quotations the first quote search gave this call
FirstQuotes == SelectSeq(rs.brief.quotations, IsVerified)

IsPrefix(s, t) == Len(s) <= Len(t) /\ SubSeq(t, 1, Len(s)) = s

\* a retry round is entered only while the verified lists are short, at most
\* max_retries times, and a retry call only appends
C22_Step ==
    /\ pc = "retry_loop" /\ pc' \in {"retry_quotes", "retry_stats"}
          => /\ Len(rs.verified_quotes) < min_quotes
                \/ Len(rs.verified_stats) < min_stats
             /\ rs.retry < max_retries
             /\ rs'.retries_performed = rs.retry + 1
    /\ pc \in {"retry_quotes", "retry_stats"}
          => /\ IsPrefix(rs.verified_quotes, rs'.verified_quotes)
             /\ IsPrefix(rs.verified_stats, rs'.verified_stats)
    /\ pc = "retry_quotes" /\ pc' = "retry_stats" /\ px'.failure # None
          => rs'.verified_quotes = rs.verified_quotes

\* C22: a top-up retry round runs only while verified quotations < 1 or
\* verified statistics < 2, at most 2 times; when the first retrieval finds
\* at least 1 verified quotation and at least 2 statistics the call runs no
\* retry and records retry_attempts = 0; what a retry finds is appended to
\* the verified lists and a retry call that raises adds nothing.
C22_TopUpRetries ==
    /\ [][C22_Step]_vars
    /\ [](pc = "apply" /\ Len(FirstQuotes) >= min_quotes
          /\ rs.stats_found >= min_stats
            => rs.retries_performed = 0)
    /\ [](pc = "apply" => rs.retries_performed <= max_retries)

-----------------------------------------------------------------------------
(* The merge as a union *)

\* no two items of list s have the same key
NoRepeat(s, Key(_)) ==
    \A i \in 1..Len(s) : \A j \in 1..Len(s) : Key(s[i]) = Key(s[j]) => i = j

\* every item of list s occurs in list t, or t is full
AllIn(s, t, cap) == Len(t) < cap => Range(s) \subseteq Range(t)

C23_Step ==
    pc = "merge" =>
        LET merged == current_research_brief'
            original == current_research_brief
            additional == research_brief
        IN /\ NoRepeat(merged.key_facts, LAMBDA f : f)
           /\ NoRepeat(merged.citations, LAMBDA c : c.description)
           /\ NoRepeat(merged.statistics, LAMBDA s : s.value)
           /\ NoRepeat(merged.quotations, LAMBDA q : q.quote)
           /\ AllIn(original.key_facts \o additional.key_facts,
                    merged.key_facts, MaxKeyFacts)
           /\ AllIn(original.citations \o additional.citations,
                    merged.citations, MaxCitations)
           /\ \A s \in Range(original.statistics \o additional.statistics) :
                 Len(merged.statistics) < MaxStatistics =>
                    \E m \in Range(merged.statistics) : m.value = s.value
           /\ \A q \in Range(original.quotations \o additional.quotations) :
                 Len(merged.quotations) < MaxQuotations =>
                    \E m \in Range(merged.quotations) : m.quote = q.quote

\* C23: the brief _merge_research_briefs produces is, up to the caps, the
\* union of its two inputs: facts and citations identified by their exact
\* text, statistics by value, quotations by quote text, each distinct item
\* once; no two merged statistics share a value, no two merged quotations
\* share a quote text, and no distinct fact or citation of the additional
\* brief is left out while the list has room.
C23_MergeIsUnion == [][C23_Step]_vars

-----------------------------------------------------------------------------
(* The merge keeps the original brief *)

\* merged list m starts with the original's list o and goes on with items
\* of the additional list a only
Extends(m, o, a) ==
    /\ IsPrefix(o, m)
    /\ \A i \in (Len(o) + 1)..Len(m) : m[i] \in Range(a)

\* the briefs a run hands to the merge are within the caps of the parser and
\* of earlier merges; the step reads the two briefs and assigns a new one
C24_Step ==
    pc = "merge" /\ WithinCaps(current_research_brief) =>
        LET merged == current_research_brief'
            original == current_research_brief
            additional == research_brief
        IN /\ research_brief' = research_brief
           /\ handed' = handed
           /\ Extends(merged.key_facts, original.key_facts,
                      additional.key_facts)
           /\ Extends(merged.statistics, original.statistics,
                      additional.statistics)
           /\ Extends(merged.quotations, original.quotations,
                      additional.quotations)
           /\ Extends(merged.citations, original.citations,
                      additional.citations)
           /\ WithinCaps(merged)

\* C24: _merge_research_briefs leaves both input briefs as they are and
\* returns a brief each of whose lists (facts, statistics, quotations,
\* citations) begins with the original's list, unchanged and in order;
\* items of the additional brief only fill the room the original leaves
\* under the caps.
C24_OriginalIsPrefix == [][C24_Step]_vars

\* a brief of two facts was merged with an over-long one: the result is
\* full, begins with the two facts and the brief the writers hold is intact
C24_FilledBehindOriginal ==
    /\ pc = "regenerate"
    /\ Len(handed.key_facts) = 2
    /\ Len(research_brief.key_facts) = 17
    /\ Len(current_research_brief.key_facts) = MaxKeyFacts
    /\ Len(current_research_brief.statistics) = MaxStatistics
    /\ IsPrefix(handed.key_facts, current_research_brief.key_facts)
    /\ IsPrefix(handed.statistics, current_research_brief.statistics)
    /\ handed.statistics # <<>>
    /\ current_research_brief.key_facts[3] \in Range(research_brief.key_facts)

-----------------------------------------------------------------------------
(* Gaps specification: every eeat_threshold the settings accept, commentary  *)
(* answers with every mix of short and long signal lists and scores on both *)
(* sides of every threshold                                                 *)

GapSettings ==
    [max_iterations : {1},
     max_research_iterations : 1..MaxResearchBound,
     eeat_threshold : 1..10,
     quality_threshold : {80},
     retry_max_attempts : {3},
     retry_min_wait_seconds : {2},
     retry_max_wait_seconds : {30}]

\* a signal list of n items
SignalList(n) == [i \in 1..n |-> i]

\* the signal list lengths of the four dimensions, in the order of Dimensions
SignalShapes ==
    {<<0, 0, 0, 0>>, <<3, 3, 3, 3>>, <<2, 0, 3, 1>>}
    \cup {<<a, b, c, d>> : a \in {1, 2}, b \in {1, 2}, c \in {1, 2},
                           d \in {1, 2}}

GapCommentaries ==
    {LLMAnswer("RuntimeError", NoLLMResponse)}
    \cup {LLMAnswer(None, JsonResponse(
            [eeat_analysis |->
                [experience_signals |-> SignalList(n[1]),
                 expertise_signals |-> SignalList(n[2]),
                 authority_signals |-> SignalList(n[3]),
                 trust_signals |-> SignalList(n[4]),
                 overall_eeat_score |-> sc]])) :
            n \in SignalShapes, sc \in {0, 3, 5, 6, 7, 9, 10}}

InitGaps ==
    /\ settings \in GapSettings
    /\ runtime \in RuntimeSet
    /\ runtime.asyncio_coroutine
    /\ runtime.perplexity_api_key
    /\ ~runtime.writer_b_down
    /\ request \in Requests
    /\ endpoint = "async"
    /\ InitState

NextGaps ==
    \/ GenerateContentAsync
    \/ RunGeneration
    \/ DetectLanguage
    \/ \E out \in PlainOutputs : RunResearchAgent(out)
    \/ \E o \in PlainOutcomes : PerplexityAttempt(o)
    \/ \E found \in {3} : SearchStatistics(found)
    \/ FilterVerified
    \/ RetryLoop
    \/ RetryStatistics
    \/ ApplyVerified
    \/ StartDrafts
    \/ \E w \in {"A", "B"} : \E g \in PlainAnswers(w) : WriterReturns(w, g)
    \/ GatherDrafts
    \/ EnterEvaluationLoop
    \/ InnerLoop
    \/ \E r \in PassingAnswers : Evaluate(r)
    \/ CheckThreshold
    \/ \E r \in GapCommentaries : SelectAndComment(r)
    \/ EEATCheck
    \/ MergeResearch
    \/ FormatContent
    \/ BuildResponse
    \/ CompleteJob

SpecGaps == InitGaps /\ [][NextGaps]_vars

\* the outer loop starts a gap-focused research
TriggersResearch == pc = "eeat_check" /\ pc' = "research"

\* no dimension of the commentary has fewer than 2 signals
NoShortList(eeat_analysis) ==
    \A i \in 1..Len(Dimensions) :
        Len(Signals(eeat_analysis, Dimensions[i])) >= 2

\* C25 as stated: for every eeat_threshold in 1..10, whenever the outer loop
\* starts a gap-focused research the gap list it passes is not empty.
C25_GapsNeverEmpty == [][TriggersResearch => eeat_gaps' # <<>>]_vars

C25_Step ==
    TriggersResearch =>
        /\ commentary.overall_eeat_score < settings.eeat_threshold
        /\ settings.eeat_threshold <= 6 => eeat_gaps' # <<>>
        /\ eeat_gaps' = <<>> <=>
              /\ NoShortList(commentary)
              /\ commentary.overall_eeat_score >= 6

\* C25, amended: for every eeat_threshold in 1..6, whenever the outer loop
\* starts a gap-focused research the gap list is not empty.  For a threshold
\* in 7..10 the list is empty exactly when every dimension has at least 2
\* signals and the score is at least 6 (and below the threshold): the
\* focused research request then names no dimension.
C25_GapsEmptyOnlyAboveSix == [][C25_Step]_vars

\* a gap-focused research was started with no gap to focus on
C25_ResearchWithoutGap ==
    /\ pc = "research"
    /\ caller = "focused"
    /\ eeat_gaps = <<>>
    /\ settings.eeat_threshold = 7
    /\ research_iteration = 1

\* the gap list is the list of the dimensions with fewer than 2 signals, in
\* the order experience, expertise, authority, trust
C26_Step ==
    TriggersResearch =>
        LET short == {d \in Range(Dimensions) :
                        Len(Signals(commentary, d)) < 2}
            gaps == eeat_gaps'
        IN IF short # {}
           THEN /\ Range(gaps) = short
                /\ Len(gaps) = Cardinality(short)
                /\ \A i \in 1..Len(gaps) : \A j \in 1..Len(gaps) :
                      i < j =>
                        \E k \in 1..4 : \E l \in 1..4 :
                            /\ k < l
                            /\ Dimensions[k] = gaps[i]
                            /\ Dimensions[l] = gaps[j]
           ELSE IF commentary.overall_eeat_score < 6
                THEN gaps = <<"experience", "expertise", "authority", "trust">>
                ELSE gaps = <<>>

\* C26: _identify_eeat_gaps returns exactly the dimensions among experience,
\* expertise, authority and trust whose signal list has fewer than 2 items,
\* in that order; when no list is short it returns all four dimensions if
\* the overall score is below 6 and the empty list otherwise.
C26_GapsAreShortLists == [][C26_Step]_vars

\* a research was started for the two dimensions with one signal each, the
\* other two having two
C26_TwoGaps ==
    /\ pc = "research"
    /\ caller = "focused"
    /\ eeat_gaps = <<"expertise", "trust">>
    /\ commentary_answer = NoAnswer

-----------------------------------------------------------------------------
(* Completion status of the trace *)

\* positions at which generate_content has ended
Ended == {"returned", "raised", "done", "sync_returned", "sync_failed"}

C27_Step ==
    /\ trace \in {"success", "failed"} => trace' = trace
    /\ trace' = "failed" /\ trace # "failed" => pc' = "raised"
    /\ pc' = "raised" /\ pc # "raised" => trace' = "failed"
    /\ pc' = "returned" /\ pc # "returned" => trace' = "success"

\* C27: completion_status starts as pending and is written to a terminal
\* value exactly once per run: success only if generate_content goes on to
\* return a response, failed only if it raises; it never changes after
\* becoming success or failed and it is not pending once the run has ended.
C27_StatusWrittenOnce ==
    /\ [][C27_Step]_vars
    /\ [](pc = "received" => trace = "pending")
    /\ [](pc \in Ended => trace # "pending")
    /\ [](trace = "success" => pc \notin {"raised", "sync_failed"}
                               /\ job.status # "failed")


-----------------------------------------------------------------------------
(* PathwayWebHarvester (pipeline/pathway_harvester.py)                      *)

\* values of max_concurrent: the constructor's default is 5 and no caller
\* passes another; 1 and 2 are smaller gates
MaxConcurrent == {1, 2, 5}

\* what one GET and the parse of its body come to in harvest_url
FetchOutcomes ==
    {"ok", "http_error", "request_error", "unexpected_error", "unreadable"}

\* harvest_url(url): the HarvestedContent of the URL, written as the URL's
\* position in the list, or None, written 0; every exception of the GET
\* and of the parse is caught and turned into None
HarvestUrl(url, outcome) == IF outcome = "ok" THEN url ELSE 0

\* isinstance(result, HarvestedContent)
IsHarvestedContent(result) == result > 0

\* harvest_urls, up to the gather: a semaphore of max_concurrent permits and
\* one harvest_with_semaphore task for each of the n URLs
HarvestUrls(mc, n) ==
    /\ harvester.state = "idle"
    /\ harvester' =
         [state |-> "gathering", max_concurrent |-> mc, semaphore |-> mc,
          task |-> [i \in 1..n |-> "waiting"],
          fetched |-> [i \in 1..n |-> "none"],
          results |-> [i \in 1..n |-> 0],
          harvested |-> <<>>, raised |-> FALSE]
    /\ UNCHANGED <<cfg, database, detection, pc, jobv, resv, orchv, draftv,
                   evalv>>

\* a gate that lets every task through
AcquireUngated(i) ==
    /\ harvester.state = "gathering"
    /\ i \in DOMAIN harvester.task
    /\ harvester.task[i] = "waiting"
    /\ harvester' = [harvester EXCEPT !.task[i] = "fetching"]
    /\ UNCHANGED <<cfg, database, detection, pc, jobv, resv, orchv, draftv,
                   evalv>>

\* async with semaphore: task i enters when a permit is free and takes it
Acquire(i) ==
    /\ harvester.state = "gathering"
    /\ i \in DOMAIN harvester.task
    /\ harvester.task[i] = "waiting"
    /\ harvester.semaphore > 0
    /\ harvester' = [harvester EXCEPT !.task[i] = "fetching",
                                      !.semaphore = @ - 1]
    /\ UNCHANGED <<cfg, database, detection, pc, jobv, resv, orchv, draftv,
                   evalv>>

\* harvest_url of task i returns and the task leaves the async with block,
\* which gives the permit back
FetchDone(i, outcome) ==
    /\ harvester.state = "gathering"
    /\ i \in DOMAIN harvester.task
    /\ harvester.task[i] = "fetching"
    /\ harvester' = [harvester EXCEPT !.task[i] = "done",
                                      !.fetched[i] = outcome,
                                      !.results[i] = HarvestUrl(i, outcome),
                                      !.semaphore = @ + 1]
    /\ UNCHANGED <<cfg, database, detection, pc, jobv, resv, orchv, draftv,
                   evalv>>

\* gather(..., return_exceptions=True) returns when every task is done; the
\* results that are HarvestedContent are kept, in the order of the URLs
GatherReturns ==
    /\ harvester.state = "gathering"
    /\ \A i \in DOMAIN harvester.task : harvester.task[i] = "done"
    /\ harvester' =
         [harvester EXCEPT !.state = "returned",
                           !.harvested =
                               SelectSeq(harvester.results, IsHarvestedContent)]
    /\ UNCHANGED <<cfg, database, detection, pc, jobv, resv, orchv, draftv,
                   evalv>>

\* a service that has only been started, whatever its configuration
InitLibrary ==
    /\ settings = CHOOSE s \in SettingsSet : TRUE
    /\ runtime = CHOOSE r \in RuntimeSet : TRUE
    /\ request = CHOOSE r \in Requests : ValidRequest(r)
    /\ endpoint = "async"
    /\ InitState

NextHarvest ==
    \/ \E mc \in MaxConcurrent : \E n \in 0..MaxUrls : HarvestUrls(mc, n)
    \/ \E i \in 1..MaxUrls : Acquire(i)
    \/ \E i \in 1..MaxUrls : \E outcome \in FetchOutcomes :
           FetchDone(i, outcome)
    \/ GatherReturns

SpecHarvest == InitLibrary /\ [][NextHarvest]_vars

\* the tasks inside harvest_url
InFlight == {i \in DOMAIN harvester.task : harvester.task[i] = "fetching"}

\* the URLs whose fetch and parse succeeded, in the order of the list
FetchedOk ==
    SelectSeq([i \in DOMAIN harvester.fetched |-> i],
              LAMBDA i : harvester.fetched[i] = "ok")

\* C28: harvest_urls never has more than max_concurrent fetches in flight,
\* whatever the number of URLs, and a URL whose fetch fails (HTTP error,
\* timeout, exception, unreadable content) is the only one dropped: the call
\* returns the content of every URL that fetched and validated, in order,
\* and does not raise
C28_BoundedFanOutKeepsTheRest ==
    /\ harvester.state # "idle" =>
         /\ Cardinality(InFlight) <= harvester.max_concurrent
         /\ ~harvester.raised
    /\ harvester.state = "returned" => harvester.harvested = FetchedOk

\* a call with more URLs than permits returned after one URL failed with an
\* HTTP error, another timed out, and two fetched
C28_ReturnedDespiteFailures ==
    /\ harvester.state = "returned"
    /\ Len(harvester.task) > harvester.max_concurrent
    /\ harvester.max_concurrent = 5
    /\ \E i, j \in DOMAIN harvester.fetched :
         /\ harvester.fetched[i] = "http_error"
         /\ harvester.fetched[j] = "request_error"
    /\ Len(harvester.harvested) = 2


-----------------------------------------------------------------------------
(* JobDatabase (db.py) and the routes that call it (api/routes.py)          *)

\* a row of the jobs table; created_at is the clock reading at the INSERT
Row(job_id, status, created_at) ==
    [job_id |-> job_id, status |-> status, created_at |-> created_at]

\* what get_job returns when the SELECT finds no row
NoRow == Row(0, None, 0)

\* get_job: SELECT * FROM jobs WHERE job_id = ?
get_job(rows, job_id) ==
    LET found == SelectSeq(rows, LAMBDA r : r.job_id = job_id)
    IN  IF found = <<>> THEN NoRow ELSE found[1]

\* the count oldest rows: ORDER BY created_at ASC LIMIT count
Oldest(rows, count) ==
    {r.job_id : r \in
        {rows[i] : i \in {i \in DOMAIN rows :
            Cardinality({k \in DOMAIN rows :
                rows[k].created_at < rows[i].created_at}) < count}}}

\* _cleanup_old_jobs: when the table holds more than max_jobs rows, the
\* count - max_jobs oldest are deleted, whatever their status
cleanup_old_jobs(rows) ==
    IF Len(rows) > max_jobs
    THEN SelectSeq(rows,
                   LAMBDA r : r.job_id \notin Oldest(rows, Len(rows) - max_jobs))
    ELSE rows

\* UPDATE jobs SET status = ? WHERE job_id = ?: no row, no change
UpdateStatus(rows, job_id, status) ==
    [i \in DOMAIN rows |->
        IF rows[i].job_id = job_id THEN [rows[i] EXCEPT !.status = status]
        ELSE rows[i]]

\* generate_content_async with SQLite configured: create_job inserts the
\* pending row and runs the cleanup; the job's run is then scheduled
create_job(job_id) ==
    /\ database.view[job_id] = "none"
    /\ \A j \in JobIds : j < job_id => database.view[j] # "none"
    /\ database' =
         [rows |-> cleanup_old_jobs(
                       Append(database.rows,
                              Row(job_id, "pending", database.clock + 1))),
          clock |-> database.clock + 1,
          view |-> [database.view EXCEPT ![job_id] = "pending"]]
    /\ UNCHANGED <<cfg, harvester, detection, pc, jobv, resv, orchv, draftv,
                   evalv>>

\* _run_generation starts: update_job_status(job_id, "processing")
update_job_status(job_id) ==
    /\ database.view[job_id] = "pending"
    /\ database' =
         [database EXCEPT
            !.rows = UpdateStatus(database.rows, job_id, "processing"),
            !.view[job_id] = "processing"]
    /\ UNCHANGED <<cfg, harvester, detection, pc, jobv, resv, orchv, draftv,
                   evalv>>

\* _run_generation, the generation returned: complete_job(job_id, result)
complete_job(job_id) ==
    /\ database.view[job_id] = "processing"
    /\ database' =
         [database EXCEPT
            !.rows = UpdateStatus(database.rows, job_id, "completed"),
            !.clock = @ + 1,
            !.view[job_id] = "completed"]
    /\ UNCHANGED <<cfg, harvester, detection, pc, jobv, resv, orchv, draftv,
                   evalv>>

\* _run_generation, the generation raised: fail_job(job_id, error)
fail_job(job_id) ==
    /\ database.view[job_id] = "processing"
    /\ database' =
         [database EXCEPT
            !.rows = UpdateStatus(database.rows, job_id, "failed"),
            !.clock = @ + 1,
            !.view[job_id] = "failed"]
    /\ UNCHANGED <<cfg, harvester, detection, pc, jobv, resv, orchv, draftv,
                   evalv>>

NextDb ==
    \/ \E j \in JobIds : create_job(j)
    \/ \E j \in JobIds : update_job_status(j)
    \/ \E j \in JobIds : complete_job(j)
    \/ \E j \in JobIds : fail_job(j)

SpecDb == InitLibrary /\ [][NextDb]_vars

\* job j has been created and has not reached completed or failed
Unfinished(j) == database.view[j] \in {"pending", "processing"}

\* a complete_job or fail_job call for job j
C29_Step ==
    \A j \in JobIds :
        (Unfinished(j) /\ database'.view[j] \in {"completed", "failed"}) =>
            get_job(database'.rows, j).status = database'.view[j]

\* C29: the cleanup run by create_job keeps at most max_jobs rows and never
\* deletes a pending or processing job: a created job stays retrievable by
\* get_job, with the status last written for it, until it has reached
\* completed or failed, and its complete_job or fail_job update takes effect
C29_UnfinishedJobsKept ==
    /\ [](/\ Len(database.rows) <= max_jobs
          /\ \A j \in JobIds :
                 Unfinished(j) =>
                     get_job(database.rows, j).status = database.view[j])
    /\ [][C29_Step]_vars


-----------------------------------------------------------------------------
(* detect_language (tools/language_detector.py) and the orchestrator's      *)
(* _detect_language (agents/orchestrator.py)                                *)

\* A string is the sequence of its code points.
en == <<101, 110>>  \* "en"
zh_TW == <<122, 104, 45, 84, 87>>  \* "zh-TW"
zh_CN == <<122, 104, 45, 67, 78>>  \* "zh-CN"
ar_MSA == <<97, 114, 45, 77, 83, 65>>  \* "ar-MSA"
ar_Gulf == <<97, 114, 45, 71, 117, 108, 102>>  \* "ar-Gulf"
ar_EG == <<97, 114, 45, 69, 71>>  \* "ar-EG"
ar_Levant == <<97, 114, 45, 76, 101, 118, 97, 110, 116>>  \* "ar-Levant"
ar_Maghreb == <<97, 114, 45, 77, 97, 103, 104, 114, 101, 98>>  \* "ar-Maghreb"
English == <<69, 110, 103, 108, 105, 115, 104>>  \* "English"
Chinese == <<67, 104, 105, 110, 101, 115, 101>>  \* "Chinese"
Arabic == <<65, 114, 97, 98, 105, 99>>  \* "Arabic"
ar == <<97, 114>>  \* "ar"
ar_dash == <<97, 114, 45>>  \* "ar-"

ARABIC_DIALECT_MARKERS ==
    <<[code |-> ar_Gulf,
       markers |->
         {<<1588, 1604, 1608, 1606, 1603>>,
          <<1608, 1575, 1610, 1583>>,
          <<1586, 1610, 1606>>,
          <<1607, 1575, 1604, 1581, 1610, 1606>>,
          <<1573, 1605, 1576, 1609>>,
          <<1610, 1575, 1604, 1604, 1607>>,
          <<1582, 1608, 1588>>}],
      [code |-> ar_EG,
       markers |->
         {<<1573, 1586, 1610, 1603>>,
          <<1603, 1583, 1607>>,
          <<1576, 1585, 1590, 1608>>,
          <<1593, 1575, 1610, 1586>>,
          <<1601, 1610, 1606>>,
          <<1573, 1610, 1607>>,
          <<1575, 1586, 1575, 1610>>}],
      [code |-> ar_Levant,
       markers |->
         {<<1603, 1610, 1601, 1603>>,
          <<1607, 1604, 1602>>,
          <<1588, 1608>>,
          <<1605, 1606, 1610, 1581>>,
          <<1607, 1610, 1603>>,
          <<1603, 1578, 1610, 1585>>,
          <<1607, 1604, 1571>>}],
      [code |-> ar_Maghreb,
       markers |->
         {<<1608, 1575, 1588>>,
          <<1576, 1586, 1575, 1601>>,
          <<1603, 1610, 1601, 1575, 1588>>,
          <<1583, 1610, 1575, 1604>>,
          <<1594, 1575, 1583, 1610>>,
          <<1605, 1586, 1610, 1575, 1606>>,
          <<1604, 1575, 1576, 1575, 1587>>}]>>

TRADITIONAL_CHINESE_CHARS ==
    {20445, 20786, 21048, 21209, 21295, 21578, 21729, 22283, 22294, 23416,
     23526, 23529, 23531, 24037, 24107, 24291, 25014, 25033, 25818, 25976,
     26360, 26371, 26989, 27231, 27454, 27511, 28639, 29151, 29694, 29872,
     30332, 31237, 31243, 31680, 32097, 32147, 32178, 32321, 32722, 32856,
     33126, 33274, 33988, 34269, 34389, 34899, 35041, 35222, 35336, 35338,
     35352, 35373, 35469, 35486, 35657, 36001, 36024, 36039, 36076, 36575,
     36681, 36939, 37291, 37504, 37559, 38283, 38555, 38570, 38651, 38971,
     39208, 39636, 40670}

SIMPLIFIED_CHINESE_CHARS ==
    {19994, 20064, 20070, 20250, 20307, 20445, 20648, 20889, 21048, 21153,
     21307, 21382, 21457, 21488, 21578, 21592, 22269, 22270, 22788, 23398,
     23454, 23457, 24037, 24072, 24191, 24212, 24320, 24518, 25454, 25968,
     26415, 26426, 27454, 27719, 27982, 28857, 29615, 29616, 30005, 31243,
     31246, 31616, 32463, 32476, 32593, 32856, 33041, 33402, 33410, 33829,
     33988, 35270, 35745, 35748, 35759, 35760, 35774, 35777, 35821, 36130,
     36134, 36151, 36164, 36716, 36719, 36816, 37324, 38134, 38144, 38469,
     38505, 39057, 39302}

TRADITIONAL_CHINESE_VOCAB ==
    {<<36575, 39636>>,
     <<32178, 38555, 32178, 36335>>,
     <<36039, 35338>>,
     <<35352, 25014, 39636>>,
     <<35222, 35338>>,
     <<20282, 26381, 22120>>,
     <<31243, 24335>>}

SIMPLIFIED_CHINESE_VOCAB ==
    {<<36719, 20214>>,
     <<20114, 32852, 32593>>,
     <<20449, 24687>>,
     <<20869, 23384>>,
     <<35270, 39057>>,
     <<26381, 21153, 22120>>,
     <<31243, 24207>>}

Words ==
    {<<>>,
     <<104, 105>>,  \* Latin
     <<1605, 1585, 1581, 1576, 1575>>,  \* Arabic without a dialect marker
     <<1586, 1610, 1606>>,  \* Gulf marker
     <<1601, 1610, 1606>>,  \* Egyptian marker
     <<1588, 1608>>,  \* Levantine marker
     <<1608, 1575, 1588>>,  \* Maghrebi marker
     <<65275>>,  \* Arabic presentation form U+FEFB
     <<20013, 25991>>,  \* Chinese, neither set
     <<36575, 39636>>,  \* Traditional vocabulary
     <<36719, 20214>>,  \* Simplified vocabulary
     <<23416>>,  \* Traditional character
     <<23398>>,  \* Simplified character
     <<13312>>,  \* CJK Extension A U+3400
     <<12398>>}  \* Hiragana

\* words a text is made of, at most
MaxWords == 3

\* s occurs in text: Python's "s in text"
Contains(text, s) ==
    \E i \in 0..(Len(text) - Len(s)) : SubSeq(text, i + 1, i + Len(s)) = s

\* str.startswith
StartsWith(s, prefix) ==
    Len(s) >= Len(prefix) /\ SubSeq(s, 1, Len(prefix)) = prefix

\* the characters str.strip() removes
IsSpace(c) ==
    c \in (9..13) \cup (28..32) \cup {133, 160, 5760, 8232, 8233, 8239, 8287,
                                      12288} \cup (8192..8202)

\* not text or not text.strip()
Blank(text) == \A i \in DOMAIN text : IsSpace(text[i])

\* re.search(r"[\u0600-\u06FF]", text)
SearchArabic(text) == \E i \in DOMAIN text : text[i] \in 1536..1791

\* re.search(r"[\u4e00-\u9fff]", text)
SearchChinese(text) == \E i \in DOMAIN text : text[i] \in 19968..40959

\* the result model; confidence in hundredths, dialect left out
LanguageDetectionResult(detected_language, language_code, confidence, writing_direction) ==
    [detected_language |-> detected_language,
     language_code |-> language_code,
     confidence |-> confidence,
     writing_direction |-> writing_direction]

\* _detect_arabic_dialect: the dialects are tried in the order of the dict
detect_arabic_dialect(text) ==
    LET hits == {d \in DOMAIN ARABIC_DIALECT_MARKERS :
                    \E marker \in ARABIC_DIALECT_MARKERS[d].markers :
                        Contains(text, marker)}
    IN  IF hits = {} THEN ar_MSA
        ELSE ARABIC_DIALECT_MARKERS[
                 CHOOSE d \in hits : \A e \in hits : d <= e].code

\* the two scores of _detect_chinese_variant: listed characters count one
\* each, vocabulary entries that occur count three each
trad_score(text) ==
    Cardinality({i \in DOMAIN text : text[i] \in TRADITIONAL_CHINESE_CHARS})
    + 3 * Cardinality({v \in TRADITIONAL_CHINESE_VOCAB : Contains(text, v)})

simp_score(text) ==
    Cardinality({i \in DOMAIN text : text[i] \in SIMPLIFIED_CHINESE_CHARS})
    + 3 * Cardinality({v \in SIMPLIFIED_CHINESE_VOCAB : Contains(text, v)})

detect_chinese_variant(text) ==
    IF trad_score(text) >= simp_score(text) THEN zh_TW ELSE zh_CN

\* a matcher that looks for Chinese before Arabic
detect_language_ChineseFirst(text) ==
    IF Blank(text)
    THEN LanguageDetectionResult(English, en, 50, "ltr")
    ELSE IF SearchChinese(text)
    THEN LanguageDetectionResult(Chinese, detect_chinese_variant(text), 95,
                                 "ltr")
    ELSE IF SearchArabic(text)
    THEN LanguageDetectionResult(Arabic, detect_arabic_dialect(text), 95,
                                 "rtl")
    ELSE LanguageDetectionResult(English, en, 90, "ltr")

\* detect_language; the Japanese and Korean tests change nothing
detect_language(text) ==
    IF Blank(text)
    THEN LanguageDetectionResult(English, en, 50, "ltr")
    ELSE IF SearchArabic(text)
    THEN LanguageDetectionResult(Arabic, detect_arabic_dialect(text), 95,
                                 "rtl")
    ELSE IF SearchChinese(text)
    THEN LanguageDetectionResult(Chinese, detect_chinese_variant(text), 95,
                                 "ltr")
    ELSE LanguageDetectionResult(English, en, 90, "ltr")

\* GEOContentWorkflow._detect_language; an override of None and an empty
\* override are both written <<>>, "if override" treats them alike
OrchestratorDetectLanguage(text, override) ==
    IF override # <<>>
    THEN LanguageDetectionResult(override, override, 100,
             IF StartsWith(override, ar_dash) THEN "rtl" ELSE "ltr")
    ELSE detect_language(text)

\* values of language_override
Overrides == {<<>>, ar_EG, ar, zh_TW}

\* the text grows by one word, separated by a space from the words before,
\* and the language of the whole is detected
Detect(word, override) ==
    /\ detection.words < MaxWords
    /\ LET text == IF detection.words = 0 THEN word
                   ELSE detection.text \o <<32>> \o word
       IN  detection' =
             [words |-> detection.words + 1,
              text |-> text,
              override |-> override,
              result |-> OrchestratorDetectLanguage(text, override)]
    /\ UNCHANGED <<cfg, harvester, database, pc, jobv, resv, orchv, draftv,
                   evalv>>

NextLanguage == \E word \in Words : \E override \in Overrides : Detect(word, override)

SpecLanguage == InitLibrary /\ [][NextLanguage]_vars

\* Unicode blocks of the Arabic script: Arabic, Arabic Supplement, Arabic
\* Extended-B and -A, Arabic Presentation Forms-A and -B
IsArabicScript(c) ==
    c \in (1536..1791) \cup (1872..1919) \cup (2160..2303)
          \cup (64336..65023) \cup (65136..65279)

\* CJK ideographs of the Basic Multilingual Plane: Extension A, Unified
\* Ideographs, Compatibility Ideographs
IsCJKIdeograph(c) ==
    c \in (13312..19903) \cup (19968..40959) \cup (63744..64255)

\* in every result, writing_direction is rtl exactly when the code starts
\* with "ar-"
DirectionFollowsCode ==
    detection.result.writing_direction = "rtl" <=>
        StartsWith(detection.result.language_code, ar_dash)

\* the precedence of detect_language, with HasArabic and HasChinese saying
\* whether the text counts as Arabic and as Chinese
Precedence(HasArabic, HasChinese) ==
    LET text == detection.text
        result == detection.result
    IN  IF Blank(text)
        THEN /\ result.language_code = en
             /\ result.detected_language = English
             /\ result.confidence = 50
        ELSE IF HasArabic
        THEN /\ result.detected_language = Arabic
             /\ StartsWith(result.language_code, ar_dash)
             /\ \A d \in DOMAIN ARABIC_DIALECT_MARKERS :
                  LET Occurs(e) ==
                          \E marker \in ARABIC_DIALECT_MARKERS[e].markers :
                              Contains(text, marker)
                  IN  result.language_code = ARABIC_DIALECT_MARKERS[d].code
                          <=> (Occurs(d) /\ \A e \in 1..(d - 1) : ~Occurs(e))
        ELSE IF HasChinese
        THEN /\ result.detected_language = Chinese
             /\ result.language_code \in {zh_TW, zh_CN}
             /\ result.language_code = zh_CN <=>
                    simp_score(text) > trad_score(text)
        ELSE /\ result.language_code = en
             /\ result.detected_language = English

\* C30 as stated: empty or whitespace-only text gives English (en, ltr,
\* confidence 0.5); otherwise text containing any Arabic-script character
\* gives Arabic with the code of the first dialect whose marker occurs, or
\* ar-MSA; otherwise text containing a CJK ideograph gives Chinese, zh-TW
\* unless the Simplified score is strictly higher; otherwise English; and in
\* every result, override included, the direction is rtl exactly when the
\* code starts with "ar-"
C30_PrecedenceByScript ==
    detection.words > 0 =>
        /\ DirectionFollowsCode
        /\ detection.override = <<>> =>
             Precedence(\E i \in DOMAIN detection.text :
                            IsArabicScript(detection.text[i]),
                        \E i \in DOMAIN detection.text :
                            IsCJKIdeograph(detection.text[i]))

\* C30 amended: the same precedence, where a text counts as Arabic when it
\* has a character in U+0600..U+06FF and as Chinese when it has a character
\* in U+4E00..U+9FFF
C30_PrecedenceByRange ==
    detection.words > 0 =>
        /\ DirectionFollowsCode
        /\ detection.override = <<>> =>
             Precedence(\E i \in DOMAIN detection.text :
                            detection.text[i] \in 1536..1791,
                        \E i \in DOMAIN detection.text :
                            detection.text[i] \in 19968..40959)

\* a text with a Maghrebi marker, a Chinese word and an Egyptian marker, in
\* this order, was detected as Egyptian Arabic
C30_ArabicBeforeChinese ==
    /\ detection.words = 3
    /\ detection.override = <<>>
    /\ SearchChinese(detection.text)
    /\ Contains(detection.text, <<1608, 1575, 1588>>)
    /\ Contains(detection.text, <<1601, 1610, 1606>>)
    /\ detection.result.language_code = ar_EG
    /\ detection.result.writing_direction = "rtl"

====
